---- MODULE Spec2Model ----
(***************************************************************************)
(* Snomakingsanalysator: the reducer-driven state tree of AppContext.tsx,  *)
(* the ContractorCard and history modals that dispatch into it, and the    *)
(* weather refresh with its notification gate, and the forecast functions  *)
(* of metno.ts.                                                            *)
(*                                                                         *)
(* The specifications that share the module, one per part:                 *)
(*   SpecContractors   the contractor list and the ContractorCard forms    *)
(*   SpecHistory       the plowing history and its modals                  *)
(*   Spec              refreshWeather, its triggers and the notification   *)
(*                     gate                                                *)
(*   SpecNotification  the refresh under every notification facility       *)
(*   SpecNormalizer    parseWeatherData over raw forecasts                 *)
(*   SpecAccumulation  calculateSnowInPeriod over forecasts and windows    *)
(*   SpecStatus        getSnowStatus as the weather and the threshold      *)
(*                     change                                              *)
(*   SpecServices      fetchWeatherData, reverseGeocode and searchPlaces   *)
(*                     over coordinates and texts                          *)
(*   SpecStore         appReducer on its own, with the blobs it writes     *)
(*   SpecSearch        the place search of SettingsForm                    *)
(* A specification leaves the variables of the other parts unchanged.      *)
(*                                                                         *)
(* Outside SpecNotification the browser is taken to have granted the       *)
(* notification permission, so a call of showNotification shows a          *)
(* notification; localStorage.setItem is taken to succeed.                 *)
(***************************************************************************)
EXTENDS Integers, Sequences, FiniteSets, TLC

VARIABLES
    \* ---- contractors (AppState.contractors and ContractorCard's local state)
    contractors,        \* state.contractors: sequence of [id, name, isPrimary]
    storedContractors,  \* localStorage blob snomaking_contractors
    isAdding,           \* ContractorCard.isAdding
    editingId,          \* ContractorCard.editingId (NoId = null)
    deletingId,         \* ContractorCard.deletingId (NoId = null)
    formData,           \* ContractorForm.formData of the mounted edit form (Null = no form)
    formAlias,          \* formData is still the very object held in state.contractors
    nextContractorId,   \* number of ids generateId has handed out
    lastDelete,         \* history variable: what the last confirmDelete removed
    \* ---- history (AppState.history and HistoryTable's local state)
    history,            \* state.history: sequence of [id, timestamp]
    storedHistory,      \* localStorage blob snomaking_history
    editingEntry,       \* HistoryTable.editingEntry (Null = no modal)
    today,              \* the wall clock read by cleanOldHistory, as a date [y, m, d]
    daysPassed,         \* days the clock has advanced in this run
    nextEntryId,        \* number of ids crypto.randomUUID has handed out
    lastHistoryAction,  \* history variable: the history action the last step dispatched
    \* ---- weather refresh (AppState.settings/weather/loading/error/lastNotifiedSnow)
    mounted,            \* AppProvider's effects have run (initialLoadComplete.current)
    settings,           \* state.settings
    storedSettings,     \* localStorage blob snomaking_settings (Null = absent)
    weather,            \* state.weather (Null = null)
    storedWeather,      \* localStorage blob snomaking_weather (Null = absent)
    loading,            \* state.loading
    error,              \* state.error ("null" = null)
    lastNotifiedSnow,   \* state.lastNotifiedSnow (NoTime = null), in clock hours
    inflight,           \* the refreshWeather calls awaiting fetchWeatherData
    nextReq,            \* number of refreshWeather calls made so far
    triggers,           \* number of refresh triggers after startup so far
    now,                \* wall clock, in hours since the page opened
    startHour,          \* local hour of day when the page opened
    notifications,      \* number of showNotification calls made so far
    lastResolved,       \* history variable: request whose response was applied last
    overwroteNewer,     \* history variable: that response replaced the response to a
                        \* request issued later
    facility,           \* the browser's notification facility, see Facilities
    displayed,              \* number of notifications the browser has displayed
    \* ---- forecast functions (metno.ts parseWeatherData, calculateSnowInPeriod;
    \*      AppContext.tsx getSnowStatus), each with its arguments and its result
    timeseries,         \* data.properties.timeseries handed to parseWeatherData
    parsed,             \* what parseWeatherData returned for it (Null = not called yet)
    forecast,           \* state.weather as getSnowStatus reads it (Null = null)
    snowThreshold,      \* state.settings.snowThreshold, in mm
    clock,              \* new Date() as calculateSnowInPeriod reads it, in hours
    accumulated,        \* the last calculateSnowInPeriod call: [hours, amount]
                        \* (Null = not called yet)
    reads,              \* the last two results of getSnowStatus, each with the
                        \* threshold it was read under
    \* ---- service calls (metno.ts fetchWeatherData; geocoding.ts reverseGeocode,
    \*      searchPlaces), each with its arguments and its result
    services,           \* [coordinate: locationRef.current / the (lat, lon) handed to
                        \*              reverseGeocode,
                        \*  wire: the network requests issued so far,
                        \*  geocoded: what reverseGeocode returned ("none" = not
                        \*            called yet),
                        \*  query: the text handed to searchPlaces, as its characters,
                        \*  found: what searchPlaces did with it (Null = not called
                        \*         yet)]
    \* ---- the reducer on its own (AppContext.tsx appReducer)
    dispatched,         \* [type: the reducer action dispatched last ("NONE" = none
                        \*        yet), count: the number of actions dispatched]
    \* ---- the place search of SettingsForm.tsx
    searchForm          \* [searchQuery: SettingsForm.searchQuery, as its characters,
                        \*  searchTimeout: the call the pending debounce timer will
                        \*                 make (Null = no timer pending),
                        \*  searches: the searchPlaces calls awaiting their response,
                        \*  suggestions: SettingsForm.suggestions,
                        \*  lastEdit: history field, how searchQuery was last set
                        \*            ("typed", "selected", or "none" for the text
                        \*            the form opened with),
                        \*  typed: the number of changes of the search field]

contractorVars == <<contractors, storedContractors, isAdding, editingId, deletingId,
                    formData, formAlias, nextContractorId, lastDelete>>
historyVars == <<history, storedHistory, editingEntry, today, daysPassed, nextEntryId,
                 lastHistoryAction>>
refreshVars == <<mounted, settings, storedSettings, weather, storedWeather, loading,
                 error, lastNotifiedSnow, inflight, nextReq, triggers, now, startHour,
                 notifications, lastResolved, overwroteNewer, facility,
                 displayed>>
forecastVars == <<timeseries, parsed, forecast, snowThreshold, clock, accumulated,
                  reads>>
serviceVars == <<services, dispatched, searchForm>>
vars == <<contractorVars, historyVars, refreshVars, forecastVars, serviceVars>>

\* null of a record-valued field, of an id and of a timestamp.
Null == [isNull |-> TRUE]
NoId == 0
NoTime == -1

(***************************************************************************)
(* Bounds of the model.                                                    *)
(***************************************************************************)
MaxContractors == 3     \* contractors ever added (ids handed out by generateId)
MaxEntries == 2         \* history entries ever added (ids from randomUUID)
MaxLen == 3             \* length of state.history
MaxDays == 2            \* days the history clock advances
MaxTriggers == 1        \* refresh triggers after startup in one run
MaxTime == 1            \* hours the clock advances in one run
MaxSeries == 2          \* entries of a raw forecast handed to parseWeatherData
MaxHourly == 2          \* hourly records of the forecast getSnowStatus reads
MaxClock == 1           \* hours the forecast clock advances

(***************************************************************************)
(* Part 1: contractors.                                                    *)
(***************************************************************************)
Names == {"Broyn AS", "Maskin AS"}

RECURSIVE FilterSeq(_, _)
\* Array.prototype.filter keeping the elements whose id is not `id`.
FilterSeq(s, id) ==
    IF s = <<>> THEN <<>>
    ELSE IF Head(s).id = id THEN FilterSeq(Tail(s), id)
         ELSE <<Head(s)>> \o FilterSeq(Tail(s), id)

\* contractors.find(c => c.id === id): the first match, Null when there is none.
FindContractor(cs, id) ==
    IF \E i \in 1..Len(cs) : cs[i].id = id
    THEN cs[CHOOSE i \in 1..Len(cs) :
                cs[i].id = id /\ \A j \in 1..(i - 1) : cs[j].id # id]
    ELSE Null

\* appReducer, case ADD_CONTRACTOR.
ADD_CONTRACTOR(cs, payload) == Append(cs, payload)

\* appReducer, case UPDATE_CONTRACTOR.
UPDATE_CONTRACTOR(cs, payload) ==
    [i \in 1..Len(cs) |-> IF cs[i].id = payload.id THEN payload ELSE cs[i]]

\* appReducer, case DELETE_CONTRACTOR.
DELETE_CONTRACTOR(cs, id) == FilterSeq(cs, id)

\* appReducer, case SET_CONTRACTOR_PRIMARY.
SET_CONTRACTOR_PRIMARY(cs, id) ==
    [i \in 1..Len(cs) |-> [cs[i] EXCEPT !.isPrimary = (cs[i].id = id)]]

\* Faulty variant of confirmDeleteResult: the promotion of the first remaining contractor
\* is left out.
confirmDeleteNoPromotion(cs, id) == DELETE_CONTRACTOR(cs, id)

\* ContractorCard.confirmDelete: the contractor list after its dispatches.
confirmDeleteResult(cs, id) ==
    LET contractor == FindContractor(cs, id)
        remaining == FilterSeq(cs, id)
    IN  IF contractor # Null /\ contractor.isPrimary /\ Len(cs) > 1
        THEN DELETE_CONTRACTOR(SET_CONTRACTOR_PRIMARY(cs, remaining[1].id), id)
        ELSE DELETE_CONTRACTOR(cs, id)

\* The edit form is rendered: editingId && editingContractor.
FormShown(cs, eid) == eid # NoId /\ FindContractor(cs, eid) # Null

\* ContractorForm's formData after a render with list cs and editingId eid: a form
\* that stays mounted keeps its state, a form that mounts copies its contractor
\* prop (useState's initial value), an unmounted form has none.
FormAfter(cs, eid, oldForm, wasShown) ==
    IF ~FormShown(cs, eid) THEN Null
    ELSE IF wasShown THEN oldForm
    ELSE FindContractor(cs, eid)

ContractorInit ==
    /\ contractors = <<>>
    /\ storedContractors = <<>>
    /\ isAdding = FALSE
    /\ editingId = NoId
    /\ deletingId = NoId
    /\ formData = Null
    /\ formAlias = FALSE
    /\ nextContractorId = 0
    /\ lastDelete = "none"

\* The render that follows a change of the list or of editingId.
Rerender(cs, eid, aliasKept) ==
    LET shown == FormShown(contractors, editingId)
    IN  /\ contractors' = cs
        /\ storedContractors' = cs
        /\ editingId' = eid
        /\ formData' = FormAfter(cs, eid, formData, shown)
        /\ formAlias' = IF ~FormShown(cs, eid) THEN FALSE
                        ELSE IF shown THEN formAlias /\ aliasKept
                        ELSE TRUE

\* "+ Legg til" (shown when no form is open) or "Legg til din foerste kontakt"
\* (shown when the list is empty).
openAdd ==
    /\ ~isAdding
    /\ editingId = NoId \/ Len(contractors) = 0
    /\ isAdding' = TRUE
    /\ lastDelete' = "none"
    /\ UNCHANGED <<contractors, storedContractors, editingId, deletingId, formData,
                   formAlias, nextContractorId>>
    /\ UNCHANGED <<historyVars, refreshVars, forecastVars, serviceVars>>

\* ContractorForm.handleSubmit of the add form, then ContractorCard.handleAdd.
handleAdd(name) ==
    /\ isAdding
    /\ nextContractorId < MaxContractors
    /\ LET contractor == [id |-> nextContractorId + 1, name |-> name,
                          isPrimary |-> (Len(contractors) = 0)]
       IN  Rerender(ADD_CONTRACTOR(contractors, contractor), editingId, TRUE)
    /\ nextContractorId' = nextContractorId + 1
    /\ isAdding' = FALSE
    /\ lastDelete' = "none"
    /\ UNCHANGED deletingId
    /\ UNCHANGED <<historyVars, refreshVars, forecastVars, serviceVars>>

\* The pencil button of a ContractorItem: setEditingId(contractor.id).
openEdit(id) ==
    /\ FindContractor(contractors, id) # Null
    /\ editingId # id
    /\ Rerender(contractors, id, TRUE)
    /\ lastDelete' = "none"
    /\ UNCHANGED <<isAdding, deletingId, nextContractorId>>
    /\ UNCHANGED <<historyVars, refreshVars, forecastVars, serviceVars>>

\* A keystroke in the name field of the edit form: setFormData({...formData, name}).
editName(name) ==
    /\ formData # Null
    /\ formData.name # name
    /\ formData' = [formData EXCEPT !.name = name]
    /\ formAlias' = FALSE
    /\ lastDelete' = "none"
    /\ UNCHANGED <<contractors, storedContractors, isAdding, editingId, deletingId,
                   nextContractorId>>
    /\ UNCHANGED <<historyVars, refreshVars, forecastVars, serviceVars>>

\* ContractorForm.handleSubmit of the edit form, then ContractorCard.handleUpdate.
handleUpdate ==
    /\ formData # Null
    /\ Rerender(UPDATE_CONTRACTOR(contractors, formData), NoId, TRUE)
    /\ lastDelete' = "none"
    /\ UNCHANGED <<isAdding, deletingId, nextContractorId>>
    /\ UNCHANGED <<historyVars, refreshVars, forecastVars, serviceVars>>

\* "Avbryt" of the edit form.
cancelEdit ==
    /\ formData # Null
    /\ Rerender(contractors, NoId, TRUE)
    /\ lastDelete' = "none"
    /\ UNCHANGED <<isAdding, deletingId, nextContractorId>>
    /\ UNCHANGED <<historyVars, refreshVars, forecastVars, serviceVars>>

\* The star button of a non-primary ContractorItem: ContractorCard.handleSetPrimary.
handleSetPrimary(id) ==
    /\ FindContractor(contractors, id) # Null
    /\ ~FindContractor(contractors, id).isPrimary
    /\ Rerender(SET_CONTRACTOR_PRIMARY(contractors, id), editingId, FALSE)
    /\ lastDelete' = "none"
    /\ UNCHANGED <<isAdding, deletingId, nextContractorId>>
    /\ UNCHANGED <<historyVars, refreshVars, forecastVars, serviceVars>>

\* The bin button of a ContractorItem: ContractorCard.handleDelete.
handleDelete(id) ==
    /\ FindContractor(contractors, id) # Null
    /\ deletingId # id
    /\ deletingId' = id
    /\ lastDelete' = "none"
    /\ UNCHANGED <<contractors, storedContractors, isAdding, editingId, formData,
                   formAlias, nextContractorId>>
    /\ UNCHANGED <<historyVars, refreshVars, forecastVars, serviceVars>>

\* "Ja, slett": ContractorCard.confirmDelete. remaining[0].isPrimary = true writes
\* into the object held by the state, which an untouched edit form of that
\* contractor shares.
confirmDelete ==
    /\ deletingId # NoId
    /\ LET contractor == FindContractor(contractors, deletingId)
           remaining == FilterSeq(contractors, deletingId)
           promote == contractor # Null /\ contractor.isPrimary /\ Len(contractors) > 1
           cs == confirmDeleteResult(contractors, deletingId)
           shown == FormShown(contractors, editingId)
           form == IF promote /\ shown /\ formAlias /\ formData.id = remaining[1].id
                   THEN [formData EXCEPT !.isPrimary = TRUE]
                   ELSE formData
       IN  /\ contractors' = cs
           /\ storedContractors' = cs
           /\ formData' = FormAfter(cs, editingId, form, shown)
           /\ formAlias' = (FormShown(cs, editingId) /\ shown /\ formAlias /\ ~promote)
           /\ lastDelete' = IF contractor # Null /\ contractor.isPrimary
                            THEN "primary" ELSE "other"
    /\ deletingId' = NoId
    /\ UNCHANGED <<isAdding, editingId, nextContractorId>>
    /\ UNCHANGED <<historyVars, refreshVars, forecastVars, serviceVars>>

\* "Avbryt" of the delete dialog.
cancelDelete ==
    /\ deletingId # NoId
    /\ deletingId' = NoId
    /\ lastDelete' = "none"
    /\ UNCHANGED <<contractors, storedContractors, isAdding, editingId, formData,
                   formAlias, nextContractorId>>
    /\ UNCHANGED <<historyVars, refreshVars, forecastVars, serviceVars>>

ContractorNext ==
    \/ openAdd
    \/ \E name \in Names : handleAdd(name)
    \/ \E id \in 1..MaxContractors : openEdit(id)
    \/ \E name \in Names : editName(name)
    \/ handleUpdate
    \/ cancelEdit
    \/ \E id \in 1..MaxContractors : handleSetPrimary(id)
    \/ \E id \in 1..MaxContractors : handleDelete(id)
    \/ confirmDelete
    \/ cancelDelete


(***************************************************************************)
(* Part 2: history.  Time is counted in days: a timestamp is a calendar    *)
(* date [y, m, d] with m the JavaScript month 0..11, and every timestamp    *)
(* is taken at the same time of day.                                       *)
(***************************************************************************)
IsLeap(y) == y % 4 = 0 /\ (y % 100 # 0 \/ y % 400 = 0)

DaysInMonth(y, m) ==
    IF m = 1 THEN (IF IsLeap(y) THEN 29 ELSE 28)
    ELSE IF m \in {3, 5, 8, 10} THEN 30
    ELSE 31

DateLess(a, b) ==
    \/ a.y < b.y
    \/ a.y = b.y /\ a.m < b.m
    \/ a.y = b.y /\ a.m = b.m /\ a.d < b.d

NextDay(t) ==
    IF t.d < DaysInMonth(t.y, t.m) THEN [t EXCEPT !.d = t.d + 1]
    ELSE IF t.m < 11 THEN [y |-> t.y, m |-> t.m + 1, d |-> 1]
    ELSE [y |-> t.y + 1, m |-> 0, d |-> 1]

PrevDay(t) ==
    IF t.d > 1 THEN [t EXCEPT !.d = t.d - 1]
    ELSE IF t.m > 0 THEN [y |-> t.y, m |-> t.m - 1, d |-> DaysInMonth(t.y, t.m - 1)]
    ELSE [y |-> t.y - 1, m |-> 11, d |-> 31]

\* Date.prototype.setMonth(month) for month in -6..11: the month is carried into
\* the year, and a day of the month the target month does not have runs over
\* into the following month.
setMonth(t, month) ==
    LET y1 == IF month < 0 THEN t.y - 1 ELSE t.y
        m1 == IF month < 0 THEN month + 12 ELSE month
        len == DaysInMonth(y1, m1)
    IN  IF t.d <= len THEN [y |-> y1, m |-> m1, d |-> t.d]
        ELSE IF m1 < 11 THEN [y |-> y1, m |-> m1 + 1, d |-> t.d - len]
        ELSE [y |-> y1 + 1, m |-> 0, d |-> t.d - len]

\* cleanOldHistory's cutoff: sixMonthsAgo.setMonth(sixMonthsAgo.getMonth() - 6).
sixMonthsAgo(t) == setMonth(t, t.m - 6)

\* cleanOldHistory(entries), called when the clock reads t.
cleanOldHistory(entries, t) ==
    SelectSeq(entries, LAMBDA e : ~DateLess(e.timestamp, sixMonthsAgo(t)))

\* appReducer, case ADD_HISTORY.
ADD_HISTORY(h, payload, t) == cleanOldHistory(Append(h, payload), t)

\* appReducer, case DELETE_HISTORY.
DELETE_HISTORY(h, id) == FilterSeq(h, id)

StartDates == {[y |-> 2026, m |-> 7, d |-> 28], [y |-> 2026, m |-> 11, d |-> 30]}

\* The dates a user enters in the date field: today and the days around the
\* six-month mark, whichever way it is counted.
EntryDates(t) ==
    LET c == sixMonthsAgo(t)
    IN  {t, PrevDay(c), c, NextDay(c), PrevDay(PrevDay(c)),
         PrevDay(PrevDay(PrevDay(c))), PrevDay(PrevDay(PrevDay(PrevDay(c))))}

NoAction == [type |-> "NONE"]

HistoryInit ==
    /\ history = <<>>
    /\ storedHistory = <<>>
    /\ editingEntry = Null
    /\ today \in StartDates
    /\ daysPassed = 0
    /\ nextEntryId = 0
    /\ lastHistoryAction = NoAction

\* AddEntryModal.handleSubmit: a new id, the entered date (or now), ADD_HISTORY.
addEntrySubmit(timestamp) ==
    /\ editingEntry = Null
    /\ nextEntryId < MaxEntries
    /\ Len(history) < MaxLen
    /\ LET entry == [id |-> nextEntryId + 1, timestamp |-> timestamp]
       IN  /\ history' = ADD_HISTORY(history, entry, today)
           /\ storedHistory' = ADD_HISTORY(history, entry, today)
           /\ lastHistoryAction' = [type |-> "ADD_HISTORY", payload |-> entry]
    /\ nextEntryId' = nextEntryId + 1
    /\ UNCHANGED <<editingEntry, today, daysPassed>>
    /\ UNCHANGED <<contractorVars, refreshVars, forecastVars, serviceVars>>

\* The pencil button of a history row: setEditingEntry(entry).
openEditEntry(i) ==
    /\ editingEntry = Null
    /\ i \in 1..Len(history)
    /\ editingEntry' = history[i]
    /\ lastHistoryAction' = NoAction
    /\ UNCHANGED <<history, storedHistory, today, daysPassed, nextEntryId>>
    /\ UNCHANGED <<contractorVars, refreshVars, forecastVars, serviceVars>>

\* EditEntryModal.handleSubmit: {...entry, timestamp} dispatched as ADD_HISTORY,
\* then onClose.
editEntrySubmit ==
    /\ editingEntry # Null
    /\ Len(history) < MaxLen
    /\ \E timestamp \in EntryDates(today) \cup {editingEntry.timestamp} :
          LET updatedEntry == [editingEntry EXCEPT !.timestamp = timestamp]
          IN  /\ history' = ADD_HISTORY(history, updatedEntry, today)
              /\ storedHistory' = ADD_HISTORY(history, updatedEntry, today)
              /\ lastHistoryAction' = [type |-> "ADD_HISTORY", payload |-> updatedEntry]
    /\ editingEntry' = Null
    /\ UNCHANGED <<today, daysPassed, nextEntryId>>
    /\ UNCHANGED <<contractorVars, refreshVars, forecastVars, serviceVars>>

\* "Avbryt" of the EditEntryModal.
closeEditEntry ==
    /\ editingEntry # Null
    /\ editingEntry' = Null
    /\ lastHistoryAction' = NoAction
    /\ UNCHANGED <<history, storedHistory, today, daysPassed, nextEntryId>>
    /\ UNCHANGED <<contractorVars, refreshVars, forecastVars, serviceVars>>

\* HistoryTable.handleDelete, confirmed: DELETE_HISTORY.
deleteEntry(id) ==
    /\ editingEntry = Null
    /\ \E i \in 1..Len(history) : history[i].id = id
    /\ history' = DELETE_HISTORY(history, id)
    /\ storedHistory' = DELETE_HISTORY(history, id)
    /\ lastHistoryAction' = [type |-> "DELETE_HISTORY", payload |-> id]
    /\ UNCHANGED <<editingEntry, today, daysPassed, nextEntryId>>
    /\ UNCHANGED <<contractorVars, refreshVars, forecastVars, serviceVars>>

\* The application is opened again: AppProvider's initial load dispatches
\* SET_HISTORY with cleanOldHistory(savedHistory).
loadHistory ==
    /\ history' = cleanOldHistory(storedHistory, today)
    /\ storedHistory' = cleanOldHistory(storedHistory, today)
    /\ editingEntry' = Null
    /\ lastHistoryAction' = [type |-> "SET_HISTORY", payload |-> storedHistory]
    /\ UNCHANGED <<today, daysPassed, nextEntryId>>
    /\ UNCHANGED <<contractorVars, refreshVars, forecastVars, serviceVars>>

\* A day passes.
nextDay ==
    /\ daysPassed < MaxDays
    /\ today' = NextDay(today)
    /\ daysPassed' = daysPassed + 1
    /\ lastHistoryAction' = NoAction
    /\ UNCHANGED <<history, storedHistory, editingEntry, nextEntryId>>
    /\ UNCHANGED <<contractorVars, refreshVars, forecastVars, serviceVars>>

HistoryNext ==
    \/ \E timestamp \in EntryDates(today) : addEntrySubmit(timestamp)
    \/ \E i \in 1..MaxLen : openEditEntry(i)
    \/ editEntrySubmit
    \/ closeEditEntry
    \/ \E id \in 1..MaxEntries : deleteEntry(id)
    \/ loadHistory
    \/ nextDay


(***************************************************************************)
(* Part 3: the weather refresh.  The clock counts whole hours.  A          *)
(* forecast response is represented by the request it answers, the         *)
(* location it was fetched for and the precipitation phase of its current  *)
(* snapshot.                                                               *)
(***************************************************************************)
DebounceHours == 1
DayStartHour == 9
DayEndHour == 18

Oslo == [name |-> "Oslo", lat |-> 59, lon |-> 10]
Bergen == [name |-> "Bergen", lat |-> 60, lon |-> 5]
Locations == {Oslo, Bergen}

PrecipitationType == {"snow", "sleet", "rain"}

\* The phases the forecast responses of a run report: snow, and one of the
\* phases refreshWeather treats as "not snow".
ResponsePhases == {"snow", "rain"}

DEFAULT_SETTINGS ==
    [location |-> Oslo, notifyNight |-> TRUE, notifyDay |-> TRUE,
     notifyEnabled |-> TRUE, notifyOnSnow |-> FALSE]

SettingsValues ==
    [location : Locations, notifyNight : BOOLEAN, notifyDay : BOOLEAN,
     notifyEnabled : BOOLEAN, notifyOnSnow : BOOLEAN]

\* new Date().getHours() when the clock reads t.
Hour(t) == (startHour + t) % 24

\* notifications.ts isDayTime / isNightTime.
isDayTime(t) == Hour(t) >= DayStartHour /\ Hour(t) < DayEndHour
isNightTime(t) == ~isDayTime(t)

\* refreshWeather's local shouldNotify, over the settings it reads.
shouldNotify(s, t) ==
    IF ~s.notifyOnSnow THEN FALSE
    ELSE IF isDayTime(t) /\ ~s.notifyDay THEN FALSE
    ELSE IF isNightTime(t) /\ ~s.notifyNight THEN FALSE
    ELSE TRUE

\* refreshWeather, lines 161-168: showNotification is called.  s and last are
\* the settings and lastNotifiedSnow of the `state` the call closed over.
Fires(s, last, phase, t) ==
    /\ shouldNotify(s, t)
    /\ phase = "snow"
    /\ last = NoTime \/ last < t - DebounceHours

\* Faulty variant of NextLastNotified: the reset for a non-snow phase sits inside the
\* shouldNotify branch.
NextLastNotifiedGated(cur, s, last, phase, t) ==
    IF Fires(s, last, phase, t) THEN t
    ELSE IF phase # "snow" /\ shouldNotify(s, t) THEN NoTime
    ELSE cur

\* refreshWeather, lines 161-173: state.lastNotifiedSnow after the dispatches of a
\* successful refresh, cur being its value before.
NextLastNotified(cur, s, last, phase, t) ==
    IF Fires(s, last, phase, t) THEN t
    ELSE IF phase # "snow" THEN NoTime
    ELSE cur

\* Faulty variant of SET_WEATHER: a response to an earlier request than the one already
\* shown is dropped.
SET_WEATHER_NEWEST(old, payload) ==
    IF old # Null /\ old.req > payload.req THEN old ELSE payload

\* appReducer, case SET_WEATHER (the value stored and written to localStorage).
SET_WEATHER(old, payload) == payload

\* appReducer, case SET_LOADING.
SET_LOADING(old, payload) == payload

\* Faulty variants of SET_ERROR: the error keeps its value; a null payload does
\* not clear an error already shown.
SET_ERROR_KEPT(old, payload) == old
SET_ERROR_STICKY(old, payload) == IF payload = "null" THEN old ELSE payload

\* appReducer, case SET_ERROR.
SET_ERROR(old, payload) == payload

\* The ways fetchWeatherData fails before it parses anything: fetch rejects
\* (no network), or the endpoint answers with a status outside 200..299.
FailureStatuses == {500}
FetchFailures ==
    {[kind |-> "rejected", status |-> 0]}
        \cup {[kind |-> "status", status |-> st] : st \in FailureStatuses}

\* The message of the Error refreshWeather catches: fetch's own rejection, or
\* fetchWeatherData's `Vaer-API feilet: ${response.status}`.
ErrorMessage(f) ==
    IF f.kind = "status" THEN "Vaer-API feilet: " \o ToString(f.status)
    ELSE "Failed to fetch"

\* The browser's notification facility: no Notification in window; permission
\* denied, or not asked for yet; permission granted; permission granted but the
\* Notification constructor throws.
Facilities == {"unsupported", "denied", "default", "granted", "failing"}

\* Faulty variant of showNotification: the constructor's exception reaches the
\* caller.
showNotificationUncaught(f) ==
    IF f = "unsupported" THEN "nothing"
    ELSE IF f = "granted" THEN "shown"
    ELSE IF f = "failing" THEN "thrown"
    ELSE "nothing"

\* notifications.ts showNotification under facility f: a notification is
\* shown, nothing happens, or the call throws.
showNotification(f) ==
    IF f = "unsupported" THEN "nothing"
    ELSE IF f \in {"granted", "failing"}
    THEN (IF f = "granted" THEN "shown" ELSE "nothing")
    ELSE "nothing"

\* `if (lat && lon)` of the startup and location-change effects.
HasCoordinates(loc) == loc.lat # 0 /\ loc.lon # 0

\* One call of refreshWeather up to its await: the request issued, with what
\* the call reads after the await from the `state` it closed over (the three
\* settings of shouldNotify and lastNotifiedSnow), and the coordinates read
\* from locationRef.
Request(req, s, last, loc) ==
    [req |-> req, notifyOnSnow |-> s.notifyOnSnow, notifyDay |-> s.notifyDay,
     notifyNight |-> s.notifyNight, lastNotifiedSnow |-> last, location |-> loc]

\* What localStorage may hold when the page is opened.
StoredSettingsAtStart ==
    {Null,
     [location |-> Bergen, notifyNight |-> TRUE, notifyDay |-> TRUE,
      notifyEnabled |-> TRUE, notifyOnSnow |-> TRUE],
     [location |-> Oslo, notifyNight |-> TRUE, notifyDay |-> FALSE,
      notifyEnabled |-> FALSE, notifyOnSnow |-> TRUE]}
StoredWeatherAtStart ==
    {Null, [req |-> 0, location |-> Oslo, precipitationType |-> "snow"]}
StartHours == {8}

\* No service call made yet.
FormIdle ==
    /\ dispatched = [type |-> "NONE", count |-> 0]
    /\ searchForm = [searchQuery |-> <<>>, searchTimeout |-> Null, searches |-> {},
               suggestions |-> <<>>, lastEdit |-> "none", typed |-> 0]
ServiceIdle ==
    /\ services = [coordinate |-> [lat |-> 59, lon |-> 10], wire |-> {},
                  geocoded |-> "none", query |-> <<>>, found |-> Null]
    /\ FormIdle

\* The forecast functions not called yet: initialState.weather is null and the
\* threshold is DEFAULT_SETTINGS.snowThreshold.
ForecastIdle ==
    /\ timeseries = <<>> /\ parsed = Null /\ forecast = Null /\ snowThreshold = 10
    /\ clock = 0 /\ accumulated = Null /\ reads = <<>>

Init ==
    /\ ForecastIdle
    /\ ServiceIdle
    /\ ContractorInit
    /\ HistoryInit
    /\ today = [y |-> 2026, m |-> 7, d |-> 28]
    /\ mounted = FALSE
    /\ settings = DEFAULT_SETTINGS
    /\ storedSettings \in StoredSettingsAtStart
    /\ weather = Null
    /\ storedWeather \in StoredWeatherAtStart
    /\ loading = FALSE
    /\ error = "null"
    /\ lastNotifiedSnow = NoTime
    /\ inflight = {}
    /\ nextReq = 0
    /\ triggers = 0
    /\ now = 0
    /\ startHour \in StartHours
    /\ facility = "granted"
    /\ displayed = 0
    /\ notifications = 0
    /\ lastResolved = 0
    /\ overwroteNewer = FALSE

\* AppProvider's effects after the first render and after the render that
\* follows it: the initial load, then the startup and location-change effects
\* of both renders.  The first render's refreshWeather closes over initialState.
mount ==
    /\ ~mounted
    /\ LET saved == IF storedSettings = Null THEN DEFAULT_SETTINGS ELSE storedSettings
           first == {Request(1, DEFAULT_SETTINGS, NoTime, DEFAULT_SETTINGS.location),
                     Request(2, DEFAULT_SETTINGS, NoTime, DEFAULT_SETTINGS.location)}
           second == IF HasCoordinates(saved.location)
                     THEN {Request(3, saved, NoTime, saved.location)}
                     ELSE {}
           moved == saved.location.lat # DEFAULT_SETTINGS.location.lat
                    \/ saved.location.lon # DEFAULT_SETTINGS.location.lon
           third == IF moved /\ HasCoordinates(saved.location)
                    THEN {Request(4, saved, NoTime, saved.location)}
                    ELSE {}
       IN  /\ settings' = saved
           /\ storedSettings' = saved
           /\ inflight' = first \cup second \cup third
           /\ nextReq' = 2 + Cardinality(second) + Cardinality(third)
    /\ weather' = storedWeather
    /\ history' = cleanOldHistory(storedHistory, today)
    /\ storedHistory' = cleanOldHistory(storedHistory, today)
    /\ contractors' = storedContractors
    /\ mounted' = TRUE
    /\ loading' = SET_LOADING(loading, TRUE)
    /\ error' = SET_ERROR(error, "null")
    /\ UNCHANGED <<forecastVars, serviceVars, storedContractors, isAdding, editingId, deletingId,
                   formData, formAlias, nextContractorId, lastDelete, editingEntry, today,
                   daysPassed, nextEntryId, lastHistoryAction, storedWeather,
                   lastNotifiedSnow, triggers, now, startHour, facility, displayed, notifications,
                   lastResolved, overwroteNewer>>

\* refreshWeather up to its await, called from a closure holding (s, last).
StartRefresh(s, last, loc) ==
    /\ triggers < MaxTriggers
    /\ triggers' = triggers + 1
    /\ inflight' = inflight \cup {Request(nextReq + 1, s, last, loc)}
    /\ nextReq' = nextReq + 1
    /\ loading' = SET_LOADING(loading, TRUE)
    /\ error' = SET_ERROR(error, "null")

\* The 15-minute interval: its callback is the first render's refreshWeather.
timerFires ==
    /\ mounted
    /\ StartRefresh(DEFAULT_SETTINGS, NoTime, settings.location)
    /\ UNCHANGED <<forecastVars, serviceVars, contractorVars, historyVars, mounted, settings, storedSettings,
                   weather, storedWeather, lastNotifiedSnow, now, startHour, facility, displayed, notifications,
                   lastResolved, overwroteNewer>>

\* visibilitychange with the document shown: the listener is the first render's.
visibilityChange ==
    /\ mounted
    /\ StartRefresh(DEFAULT_SETTINGS, NoTime, settings.location)
    /\ UNCHANGED <<forecastVars, serviceVars, contractorVars, historyVars, mounted, settings, storedSettings,
                   weather, storedWeather, lastNotifiedSnow, now, startHour, facility, displayed, notifications,
                   lastResolved, overwroteNewer>>

\* WeatherCard's "Oppdater" button (disabled while loading): the refreshWeather of
\* the latest render.
manualRefresh ==
    /\ mounted
    /\ ~loading
    /\ StartRefresh(settings, lastNotifiedSnow, settings.location)
    /\ UNCHANGED <<forecastVars, serviceVars, contractorVars, historyVars, mounted, settings, storedSettings,
                   weather, storedWeather, lastNotifiedSnow, now, startHour, facility, displayed, notifications,
                   lastResolved, overwroteNewer>>

\* The forms SettingsForm can submit from settings s: formData starts as
\* state.settings, and the user picks another place or flips one of the three
\* switches the form has, or changes nothing.  The form has no control for
\* notifyEnabled.
FormFields == {"location", "notifyNight", "notifyDay", "notifyOnSnow"}
SavePayloads(s) ==
    {p \in SettingsValues :
        /\ p.notifyEnabled = s.notifyEnabled
        /\ Cardinality({f \in FormFields : p[f] # s[f]}) <= 1}

\* SettingsForm.handleSave: SET_SETTINGS, then the refreshWeather of the render the
\* form was drawn in (the state before the dispatch, locationRef not yet
\* updated), then, after the re-render, the location-change effect.
handleSave(payload) ==
    /\ mounted
    /\ triggers < MaxTriggers
    /\ triggers' = triggers + 1
    /\ LET moved == payload.location.lat # settings.location.lat
                    \/ payload.location.lon # settings.location.lon
           own == Request(nextReq + 1, settings, lastNotifiedSnow, settings.location)
           effect == IF moved /\ HasCoordinates(payload.location)
                     THEN {Request(nextReq + 2, payload, lastNotifiedSnow,
                                   payload.location)}
                     ELSE {}
       IN  /\ inflight' = inflight \cup {own} \cup effect
           /\ nextReq' = nextReq + 1 + Cardinality(effect)
    /\ settings' = payload
    /\ storedSettings' = payload
    /\ loading' = SET_LOADING(loading, TRUE)
    /\ error' = SET_ERROR(error, "null")
    /\ UNCHANGED <<forecastVars, serviceVars, contractorVars, historyVars, mounted, weather, storedWeather,
                   lastNotifiedSnow, now, startHour, facility, displayed, notifications,
                   lastResolved, overwroteNewer>>

\* fetchWeatherData resolves for request r with a forecast whose current phase is
\* `phase`: refreshWeather's try block and finally.
refreshSucceeds(r, phase) ==
    /\ r \in inflight
    /\ LET payload == [req |-> r.req, location |-> r.location,
                       precipitationType |-> phase]
           fires == Fires(r, r.lastNotifiedSnow, phase, now)
           outcome == IF fires THEN showNotification(facility) ELSE "nothing"
       IN  /\ weather' = SET_WEATHER(weather, payload)
           /\ storedWeather' = SET_WEATHER(weather, payload)
           /\ lastNotifiedSnow' =
                  IF outcome = "thrown" THEN lastNotifiedSnow
                  ELSE NextLastNotified(lastNotifiedSnow, r, r.lastNotifiedSnow,
                                        phase, now)
           /\ notifications' = IF fires THEN notifications + 1 ELSE notifications
           /\ displayed' = IF outcome = "shown" THEN displayed + 1 ELSE displayed
           /\ error' = IF outcome = "thrown"
                       THEN SET_ERROR(error, "Illegal constructor")
                       ELSE error
    /\ inflight' = inflight \ {r}
    /\ loading' = SET_LOADING(loading, FALSE)
    /\ lastResolved' = r.req
    /\ overwroteNewer' = (weather # Null /\ weather.req > r.req)
    /\ UNCHANGED <<forecastVars, serviceVars, contractorVars, historyVars, mounted,
                   settings, storedSettings, nextReq, triggers, now, startHour,
                   facility>>

\* fetchWeatherData rejects for request r with failure f, before parseWeatherData
\* is reached: refreshWeather's catch and finally.
refreshFails(r, f) ==
    /\ r \in inflight
    /\ inflight' = inflight \ {r}
    /\ error' = SET_ERROR(error, ErrorMessage(f))
    /\ loading' = SET_LOADING(loading, FALSE)
    /\ UNCHANGED <<forecastVars, serviceVars, contractorVars, historyVars, mounted, settings, storedSettings,
                   weather, storedWeather, lastNotifiedSnow, nextReq, triggers, now,
                   startHour, facility, displayed, notifications, lastResolved, overwroteNewer>>

\* An hour passes.
tick ==
    /\ now < MaxTime
    /\ now' = now + 1
    /\ UNCHANGED <<forecastVars, serviceVars, contractorVars, historyVars, mounted, settings, storedSettings,
                   weather, storedWeather, loading, error, lastNotifiedSnow, inflight,
                   nextReq, triggers, startHour, facility, displayed, notifications, lastResolved,
                   overwroteNewer>>

Next ==
    \/ mount
    \/ timerFires
    \/ visibilityChange
    \/ manualRefresh
    \/ \E payload \in SavePayloads(settings) : handleSave(payload)
    \/ \E r \in inflight, phase \in ResponsePhases : refreshSucceeds(r, phase)
    \/ \E r \in inflight, f \in FetchFailures : refreshFails(r, f)
    \/ tick

RefreshIdle ==
    /\ mounted = FALSE /\ settings = DEFAULT_SETTINGS /\ storedSettings = Null
    /\ weather = Null /\ storedWeather = Null /\ loading = FALSE /\ error = "null"
    /\ lastNotifiedSnow = NoTime /\ inflight = {} /\ nextReq = 0 /\ triggers = 0 /\ now = 0
    /\ startHour = 8 /\ notifications = 0 /\ facility = "granted" /\ displayed = 0
    /\ lastResolved = 0 /\ overwroteNewer = FALSE

Spec == Init /\ [][Next]_vars

\* The refresh under every notification facility, for an installation whose
\* saved settings ask for snow notifications at all hours.
InitNotification ==
    /\ ForecastIdle
    /\ ServiceIdle
    /\ ContractorInit
    /\ HistoryInit
    /\ today = [y |-> 2026, m |-> 7, d |-> 28]
    /\ mounted = FALSE
    /\ settings = DEFAULT_SETTINGS
    /\ storedSettings = [location |-> Bergen, notifyNight |-> TRUE, notifyDay |-> TRUE,
                         notifyEnabled |-> TRUE, notifyOnSnow |-> TRUE]
    /\ weather = Null
    /\ storedWeather = Null
    /\ loading = FALSE
    /\ error = "null"
    /\ lastNotifiedSnow = NoTime
    /\ inflight = {}
    /\ nextReq = 0
    /\ triggers = 0
    /\ now = 0
    /\ startHour \in StartHours
    /\ notifications = 0
    /\ lastResolved = 0
    /\ overwroteNewer = FALSE
    /\ facility \in Facilities
    /\ displayed = 0

NotificationNext ==
    \/ mount
    \/ timerFires
    \/ manualRefresh
    \/ \E r \in inflight, phase \in ResponsePhases : refreshSucceeds(r, phase)
    \/ \E r \in inflight, f \in FetchFailures : refreshFails(r, f)
    \/ tick

SpecNotification == InitNotification /\ [][NotificationNext]_vars

\* The contractor list alone, and the history alone: the rest of the state tree
\* stays as constructed.
InitContractors ==
    ContractorInit /\ HistoryInit /\ today = [y |-> 2026, m |-> 7, d |-> 28]
    /\ RefreshIdle /\ ForecastIdle /\ ServiceIdle
SpecContractors == InitContractors /\ [][ContractorNext]_vars

InitHistory ==
    ContractorInit /\ HistoryInit /\ RefreshIdle /\ ForecastIdle /\ ServiceIdle
SpecHistory == InitHistory /\ [][HistoryNext]_vars


(***************************************************************************)
(* Part 4: the forecast functions of metno.ts and getSnowStatus.           *)
(*                                                                         *)
(* Amounts (mm) and temperatures (degrees C) are counted in units of       *)
(* 1/600, so that a figure given in hundredths, and a sixth of one, is a   *)
(* whole number of units and the arithmetic below is exact.  The figures   *)
(* that sit on a rounding tie (x.x5) are binary fractions (1.25, -1.25),   *)
(* for which the floating-point product by 10 is exact as well.            *)
(***************************************************************************)
Scale == 600
Tenth == 60
HourlyLimit == 48
StatusHours == 24
Absent == -1

Hundredths(h) == (h * Scale) \div 100
Min(a, b) == IF a < b THEN a ELSE b

\* Math.round(x * 10) / 10: Math.round takes a tie to the integer above.
MathRound10(x) == ((x + Tenth \div 2) \div Tenth) * Tenth

\* ---- parseWeatherData

\* Faulty variant of precipitation: the 6-hour figure is preferred.
precipitationSixFirst(entry) ==
    IF entry.next_6_hours # Absent THEN entry.next_6_hours \div 6
    ELSE IF entry.next_1_hours # Absent THEN entry.next_1_hours
    ELSE 0

\* `precipitation` of one timeseries entry: the 1-hour figure if there is one,
\* else a sixth of the 6-hour figure, else 0.
precipitation(entry) ==
    IF entry.next_1_hours # Absent THEN entry.next_1_hours
    ELSE IF entry.next_6_hours # Absent THEN entry.next_6_hours \div 6
    ELSE 0

\* Faulty variant of getPrecipitationType: the phase is decided on the
\* temperature alone.
getPrecipitationTypeByTemp(temp, precip) ==
    IF temp < Hundredths(50) THEN "snow"
    ELSE IF temp < Hundredths(300) THEN "sleet"
    ELSE "rain"

getPrecipitationType(temp, precip) ==
    IF precip <= 0 THEN "rain"
    ELSE IF temp < Hundredths(50) THEN "snow"
    ELSE IF temp < Hundredths(300) THEN "sleet"
    ELSE "rain"

\* Faulty variant of snow: the snow figure follows the phase.
snowByPhase(temp, precip) ==
    IF getPrecipitationType(temp, precip) = "snow" THEN precip ELSE 0

\* `snow` of one timeseries entry.
snow(temp, precip) ==
    IF temp < Hundredths(200) /\ precip > 0 THEN precip ELSE 0

\* `weatherCondition` of one timeseries entry ("" = no symbol_code).
weatherCondition(entry) ==
    IF entry.symbol_code_1 # "" THEN entry.symbol_code_1
    ELSE IF entry.symbol_code_6 # "" THEN entry.symbol_code_6
    ELSE "clearsky"

\* The record pushed to `hourly` for one entry.
hourlyRecord(entry) ==
    [time |-> entry.time,
     snow |-> MathRound10(snow(entry.air_temperature, precipitation(entry))),
     precipitationType |->
         getPrecipitationType(entry.air_temperature, precipitation(entry)),
     temperature |-> MathRound10(entry.air_temperature),
     precipitation |-> MathRound10(precipitation(entry)),
     weatherCondition |-> weatherCondition(entry)]

\* The `current` snapshot: the values of the entry with index 0, of which only
\* the temperature and the wind speed are rounded; the initial values of the
\* locals if there is no entry.
currentSnapshot(ts) ==
    IF Len(ts) = 0
    THEN [temperature |-> MathRound10(0), snow |-> 0, precipitationType |-> "rain",
          precipitation |-> 0, weatherCondition |-> "clearsky",
          windSpeed |-> MathRound10(0)]
    ELSE [temperature |-> MathRound10(ts[1].air_temperature),
          snow |-> snow(ts[1].air_temperature, precipitation(ts[1])),
          precipitationType |->
              getPrecipitationType(ts[1].air_temperature, precipitation(ts[1])),
          precipitation |-> precipitation(ts[1]),
          weatherCondition |-> weatherCondition(ts[1]),
          windSpeed |-> MathRound10(ts[1].wind_speed)]

\* parseWeatherData(data) at time t, ts being data.properties.timeseries.
parseWeatherData(ts, t) ==
    LET used == SubSeq(ts, 1, Min(Len(ts), HourlyLimit))
    IN  [updatedAt |-> t,
         current |-> currentSnapshot(used),
         hourly |-> [i \in 1..Len(used) |-> hourlyRecord(used[i])]]

\* The raw entries of a run: temperatures around the limits of 0.5, 2 and 3
\* degrees and on rounding ties, 1-hour and 6-hour figures absent, zero and
\* positive.
Temperatures == {Hundredths(h) : h \in {-125, -100, 50, 100, 125, 196, 200, 300}}
OneHourFigures == {Absent} \cup {Hundredths(h) : h \in {0, 4, 125, 320}}
SixHourFigures == {Absent} \cup {Hundredths(h) : h \in {0, 100, 600}}
SymbolCodes == {<<"", "">>, <<"", "rain">>, <<"snow", "rain">>}
RawEntries ==
    {[time |-> 0, air_temperature |-> temp, wind_speed |-> Hundredths(345),
      next_1_hours |-> p1, next_6_hours |-> p6,
      symbol_code_1 |-> sym[1], symbol_code_6 |-> sym[2]] :
        temp \in Temperatures, p1 \in OneHourFigures, p6 \in SixHourFigures,
        sym \in SymbolCodes}

\* The entries that follow the first one in a raw forecast of a run.
LaterEntries ==
    {[time |-> 0, air_temperature |-> Hundredths(-100), wind_speed |-> Hundredths(345),
      next_1_hours |-> Hundredths(320), next_6_hours |-> Absent,
      symbol_code_1 |-> "snow", symbol_code_6 |-> ""],
     [time |-> 0, air_temperature |-> Hundredths(100), wind_speed |-> Hundredths(345),
      next_1_hours |-> Absent, next_6_hours |-> Hundredths(600),
      symbol_code_1 |-> "", symbol_code_6 |-> "sleet"],
     [time |-> 0, air_temperature |-> Hundredths(300), wind_speed |-> Hundredths(345),
      next_1_hours |-> Hundredths(125), next_6_hours |-> Hundredths(100),
      symbol_code_1 |-> "rain", symbol_code_6 |-> "rain"]}

RECURSIVE LaterSeries(_)
LaterSeries(n) ==
    IF n = 0 THEN {<<>>}
    ELSE {<<>>} \cup {<<e>> \o rest : e \in LaterEntries, rest \in LaterSeries(n - 1)}

\* Entry i of a forecast is for hour i - 1.
Hourly(ts) == [i \in 1..Len(ts) |-> [ts[i] EXCEPT !.time = i - 1]]

RawSeries ==
    {<<>>} \cup {Hourly(<<e>> \o rest) :
                     e \in RawEntries, rest \in LaterSeries(MaxSeries - 1)}

\* The rest of the state tree as constructed.
RestIdle ==
    ContractorInit /\ HistoryInit /\ today = [y |-> 2026, m |-> 7, d |-> 28]
    /\ RefreshIdle /\ ServiceIdle

InitNormalizer ==
    /\ RestIdle
    /\ timeseries \in RawSeries /\ parsed = Null /\ forecast = Null
    /\ snowThreshold = 10 /\ clock = 0 /\ accumulated = Null /\ reads = <<>>

\* fetchWeatherData's last line: the response body is normalized.
normalize ==
    /\ parsed = Null
    /\ parsed' = parseWeatherData(timeseries, clock)
    /\ UNCHANGED <<serviceVars, contractorVars, historyVars, refreshVars, timeseries, forecast,
                   snowThreshold, clock, accumulated, reads>>

NormalizerNext == normalize

SpecNormalizer == InitNormalizer /\ [][NormalizerNext]_vars


\* ---- calculateSnowInPeriod and getSnowStatus

\* Faulty variant of calculateSnowInPeriod: the records that lie in the past
\* are counted too.
RECURSIVE calculateSnowInPeriodAllTimes(_, _, _)
calculateSnowInPeriodAllTimes(hourly, hours, t) ==
    IF Min(hours, Len(hourly)) <= 0 THEN 0
    ELSE hourly[Min(hours, Len(hourly))].snow
             + calculateSnowInPeriodAllTimes(hourly, Min(hours, Len(hourly)) - 1, t)

\* totalSnow after the loop has run over the indices below n.
RECURSIVE totalSnow(_, _, _)
totalSnow(hourly, n, t) ==
    IF n <= 0 THEN 0
    ELSE totalSnow(hourly, n - 1, t)
             + (IF hourly[n].time >= t THEN hourly[n].snow ELSE 0)

\* calculateSnowInPeriod(hourly, hours) called at time t.
calculateSnowInPeriod(hourly, hours, t) ==
    MathRound10(totalSnow(hourly, Min(hours, Len(hourly)), t))

\* Faulty variants of getSnowStatus: the limits are exclusive; the two upper
\* statuses are exchanged.
getSnowStatusExclusive(w, threshold, t) ==
    IF w = Null THEN [status |-> "normal", snowAmount |-> 0]
    ELSE LET snow24h == calculateSnowInPeriod(w.hourly, StatusHours, t)
         IN  IF 2 * snow24h > 3 * threshold * Scale
             THEN [status |-> "critical", snowAmount |-> snow24h]
             ELSE IF snow24h > threshold * Scale
             THEN [status |-> "warning", snowAmount |-> snow24h]
             ELSE [status |-> "normal", snowAmount |-> snow24h]
getSnowStatusExchanged(w, threshold, t) ==
    IF w = Null THEN [status |-> "normal", snowAmount |-> 0]
    ELSE LET snow24h == calculateSnowInPeriod(w.hourly, StatusHours, t)
         IN  IF 2 * snow24h >= 3 * threshold * Scale
             THEN [status |-> "warning", snowAmount |-> snow24h]
             ELSE IF snow24h >= threshold * Scale
             THEN [status |-> "critical", snowAmount |-> snow24h]
             ELSE [status |-> "normal", snowAmount |-> snow24h]

\* getSnowStatus() over state.weather = w and state.settings.snowThreshold =
\* threshold (in mm), read at time t.  snow24h >= threshold * 1.5 is compared
\* with both sides doubled.
getSnowStatus(w, threshold, t) ==
    IF w = Null THEN [status |-> "normal", snowAmount |-> 0]
    ELSE LET snow24h == calculateSnowInPeriod(w.hourly, StatusHours, t)
         IN  IF 2 * snow24h >= 3 * threshold * Scale
             THEN [status |-> "critical", snowAmount |-> snow24h]
             ELSE IF snow24h >= threshold * Scale
             THEN [status |-> "warning", snowAmount |-> snow24h]
             ELSE [status |-> "normal", snowAmount |-> snow24h]

\* The forecasts of a run, by the fields calculateSnowInPeriod reads: up to
\* MaxHourly records, record i for hour i - 1, with snow figures of one decimal
\* around the limits of a 10 mm threshold.
SnowFigures == {Hundredths(h) : h \in {990, 1490, 1500}}
HourlySeries ==
    UNION {[1..k -> SnowFigures] : k \in 0..MaxHourly}
Forecasts ==
    {[hourly |-> [i \in 1..Len(f) |-> [time |-> i - 1, snow |-> f[i]]]] :
        f \in HourlySeries}
Thresholds == {5, 10}
Windows == -1..(MaxHourly + 1)

InitAccumulation ==
    /\ RestIdle
    /\ timeseries = <<>> /\ parsed = Null /\ forecast \in Forecasts
    /\ snowThreshold = 10 /\ clock \in 0..MaxClock /\ accumulated = Null
    /\ reads = <<>>

\* calculateSnowInPeriod is called on the forecast for a window of `hours`.
accumulate(hours) ==
    /\ accumulated' =
           [hours |-> hours,
            amount |-> calculateSnowInPeriod(forecast.hourly, hours, clock)]
    /\ UNCHANGED <<serviceVars, contractorVars, historyVars, refreshVars, timeseries, parsed,
                   forecast, snowThreshold, clock, reads>>

AccumulationNext == \E hours \in Windows : accumulate(hours)

SpecAccumulation == InitAccumulation /\ [][AccumulationNext]_vars

InitStatus ==
    /\ RestIdle
    /\ timeseries = <<>> /\ parsed = Null /\ forecast = Null
    /\ snowThreshold = 10 /\ clock = 0 /\ accumulated = Null /\ reads = <<>>

\* SET_WEATHER: a normalized forecast replaces state.weather.
newForecast(w) ==
    /\ forecast' = w
    /\ UNCHANGED <<serviceVars, contractorVars, historyVars, refreshVars, timeseries, parsed,
                   snowThreshold, clock, accumulated, reads>>

\* SET_SETTINGS with another snow threshold.
changeThreshold(threshold) ==
    /\ snowThreshold' = threshold
    /\ UNCHANGED <<serviceVars, contractorVars, historyVars, refreshVars, timeseries, parsed,
                   forecast, clock, accumulated, reads>>

hourPasses ==
    /\ clock < MaxClock
    /\ clock' = clock + 1
    /\ UNCHANGED <<serviceVars, contractorVars, historyVars, refreshVars, timeseries, parsed,
                   forecast, snowThreshold, accumulated, reads>>

\* A component renders and calls getSnowStatus().
readSnowStatus ==
    /\ LET result == getSnowStatus(forecast, snowThreshold, clock)
           read == [status |-> result.status, snowAmount |-> result.snowAmount,
                    threshold |-> snowThreshold]
       IN  reads' = IF Len(reads) < 2 THEN Append(reads, read)
                    ELSE <<reads[2], read>>
    /\ UNCHANGED <<serviceVars, contractorVars, historyVars, refreshVars, timeseries, parsed,
                   forecast, snowThreshold, clock, accumulated>>

StatusNext ==
    \/ \E w \in Forecasts : newForecast(w)
    \/ \E threshold \in Thresholds : changeThreshold(threshold)
    \/ hourPasses
    \/ readSnowStatus

SpecStatus == InitStatus /\ [][StatusNext]_vars

(***************************************************************************)
(* Part 5: the service calls.  Coordinates are whole degrees; NaN stands   *)
(* for the number NaN.  A text is the sequence of its characters.  The     *)
(* forecast endpoint is taken to deliver a forecast only for coordinates   *)
(* on the globe.                                                           *)
(***************************************************************************)
NaN == 1000

\* geocoding.ts isValidLatitude, isValidLongitude, isValidCoordinate.
isValidLatitude(lat) == lat # NaN /\ lat >= -90 /\ lat <= 90
isValidLongitude(lon) == lon # NaN /\ lon >= -180 /\ lon <= 180
isValidCoordinate(lat, lon) == isValidLatitude(lat) /\ isValidLongitude(lon)

\* The coordinates of a run: inside the ranges, on their limits, outside
\* them, and not a number (parseFloat of an empty field).
Latitudes == {-91, -90, 59, 90, 95, NaN}
Longitudes == {-181, 10, 180, 181, NaN}
CoordinateInputs == [lat : Latitudes, lon : Longitudes]

\* A request on the network.
Sent(service, lat, lon, q) == [service |-> service, lat |-> lat, lon |-> lon, q |-> q]

\* String.prototype.trim.
RECURSIVE TrimStart(_)
TrimStart(q) ==
    IF q # <<>> /\ Head(q) = " " THEN TrimStart(Tail(q)) ELSE q
RECURSIVE TrimEnd(_)
TrimEnd(q) ==
    IF q # <<>> /\ q[Len(q)] = " " THEN TrimEnd(SubSeq(q, 1, Len(q) - 1)) ELSE q
Trim(q) == TrimEnd(TrimStart(q))

\* The texts handed to searchPlaces in a run.
Queries ==
    {<<>>, <<" ">>, <<"a">>, <<" ", "a", " ">>, <<" ", " ", " ">>, <<"a", "b">>,
     <<" ", "a", "b">>, <<"o", "s", "l", "o">>}

\* What the search endpoint may do with a request: answer with a list of
\* places, fail to answer, answer with a non-success status, or answer with a
\* body that is not JSON; and the lists it may answer with.
SearchOutcomes == {"ok", "rejected", "status", "unparsable"}
NominatimPlaces ==
    [name : {"", "Oslo"}, display_name : {<<"Oslo", "Norge">>}, lat : {59}, lon : {10}]
SearchBodies == {<<>>} \cup {<<item>> : item \in NominatimPlaces}

\* The GeocodingResult made of one place of the response.
GeocodingResult(item) ==
    [name |-> IF item.name # "" THEN item.name
              ELSE IF item.display_name[1] # "" THEN item.display_name[1]
              ELSE "Ukjent",
     lat |-> item.lat, lon |-> item.lon, display_name |-> item.display_name]

\* Faulty variant of searchPlaces: a failure of the request is not caught.
searchPlacesUncaught(q, outcome, body) ==
    IF Len(Trim(q)) < 2
    THEN [result |-> <<>>, requested |-> FALSE, thrown |-> FALSE]
    ELSE IF outcome = "ok"
    THEN [result |-> [i \in DOMAIN body |-> GeocodingResult(body[i])],
          requested |-> TRUE, thrown |-> FALSE]
    ELSE [result |-> <<>>, requested |-> TRUE, thrown |-> TRUE]

\* searchPlaces(q) when the endpoint does `outcome` and, if it answers, sends
\* `body`: the list returned, whether a request was issued, and whether the
\* call threw.
searchPlaces(q, outcome, body) ==
    IF q = <<>> \/ Len(Trim(q)) < 2
    THEN [result |-> <<>>, requested |-> FALSE, thrown |-> FALSE]
    ELSE IF outcome = "ok"
    THEN [result |-> [i \in DOMAIN body |-> GeocodingResult(body[i])],
          requested |-> TRUE, thrown |-> FALSE]
    ELSE [result |-> <<>>, requested |-> TRUE, thrown |-> FALSE]

\* The application some time after startup: the two startup refreshes have
\* delivered a forecast for Oslo, the coordinates typed into SettingsForm have
\* been saved since, and nothing is in flight.
InitServices ==
    /\ ContractorInit /\ HistoryInit /\ today = [y |-> 2026, m |-> 7, d |-> 28]
    /\ ForecastIdle
    /\ services \in [coordinate : CoordinateInputs, wire : {{}}, geocoded : {"none"},
                     query : Queries, found : {Null}]
    /\ FormIdle
    /\ mounted = TRUE
    /\ settings = [DEFAULT_SETTINGS EXCEPT
                      !.location = [name |-> "Hjemme", lat |-> services.coordinate.lat,
                                    lon |-> services.coordinate.lon]]
    /\ storedSettings = settings
    /\ weather = [req |-> 2, location |-> Oslo, precipitationType |-> "rain"]
    /\ storedWeather = weather
    /\ loading = FALSE /\ error = "null" /\ lastNotifiedSnow = NoTime
    /\ inflight = {} /\ nextReq = 2 /\ triggers = 0 /\ now = 0 /\ startHour = 8
    /\ notifications = 0 /\ lastResolved = 2 /\ overwroteNewer = FALSE
    /\ facility = "granted" /\ displayed = 0

\* refreshWeather with locationRef.current = coordinate, up to the request
\* fetchWeatherData issues.
refreshWeatherAt ==
    /\ StartRefresh(settings, lastNotifiedSnow, settings.location)
    /\ services' = [services EXCEPT
                      !.wire = @ \cup {Sent("forecast", services.coordinate.lat,
                                            services.coordinate.lon, <<>>)}]
    /\ UNCHANGED <<contractorVars, historyVars, forecastVars, mounted, settings,
                   storedSettings, weather, storedWeather, lastNotifiedSnow, now,
                   startHour, facility, displayed, notifications, lastResolved,
                   overwroteNewer, dispatched, searchForm>>

\* reverseGeocode(coordinate.lat, coordinate.lon); the endpoint answers with a
\* place or the call comes back with null.
callReverseGeocode(answer) ==
    /\ services.geocoded = "none"
    /\ LET c == services.coordinate
       IN  IF ~isValidCoordinate(c.lat, c.lon)
           THEN services' = [services EXCEPT !.geocoded = "null"]
           ELSE services' = [services EXCEPT
                               !.geocoded = answer,
                               !.wire = @ \cup {Sent("reverse", c.lat, c.lon, <<>>)}]
    /\ UNCHANGED <<contractorVars, historyVars, refreshVars, forecastVars, dispatched,
                   searchForm>>

\* searchPlaces(query).
callSearchPlaces(outcome, body) ==
    /\ services.found = Null
    /\ LET call == searchPlaces(services.query, outcome, body)
       IN  services' = [services EXCEPT
                          !.found = [result |-> call.result, thrown |-> call.thrown,
                                     outcome |-> IF call.requested THEN outcome
                                                 ELSE "none"],
                          !.wire = IF call.requested
                                   THEN @ \cup {Sent("search", 0, 0, Trim(services.query))}
                                   ELSE @]
    /\ UNCHANGED <<contractorVars, historyVars, refreshVars, forecastVars, dispatched,
                   searchForm>>

ServicesNext ==
    \/ refreshWeatherAt
    \/ \E r \in inflight, phase \in ResponsePhases :
           /\ isValidCoordinate(r.location.lat, r.location.lon)
           /\ refreshSucceeds(r, phase)
    \/ \E r \in inflight, f \in FetchFailures : refreshFails(r, f)
    \/ \E answer \in {"Oslo, Norge", "null"} : callReverseGeocode(answer)
    \/ \E outcome \in SearchOutcomes, body \in SearchBodies :
           callSearchPlaces(outcome, body)

SpecServices == InitServices /\ [][ServicesNext]_vars

(***************************************************************************)
(* Part 6: the reducer on its own.  Every case of appReducer, dispatched   *)
(* in any order with the payloads the components build, and the blob each  *)
(* case writes.                                                            *)
(***************************************************************************)
MaxDispatches == 3      \* reducer actions dispatched in one run

\* JSON.stringify writes a number that is NaN as null; JSON.parse reads null.
JsonNull == 1001
JSONnumber(n) == IF n = NaN THEN JsonNull ELSE n

\* JSON.parse(JSON.stringify(settings)): what a reader of the blob
\* snomaking_settings finds after setToLocalStorage(SETTINGS, settings).
setToLocalStorage(s) ==
    [s EXCEPT !.location = [name |-> s.location.name,
                            lat |-> JSONnumber(s.location.lat),
                            lon |-> JSONnumber(s.location.lon)]]

\* appReducer, cases SET_SETTINGS, SET_HISTORY, SET_CONTRACTORS and
\* SET_LAST_NOTIFIED_SNOW: the new value of the field.
SET_SETTINGS(old, payload) == payload
SET_HISTORY(old, payload) == payload
SET_CONTRACTORS(old, payload) == payload
SET_LAST_NOTIFIED_SNOW(old, payload) == payload

\* The locations SettingsForm saves: a place picked from the suggestions, or
\* coordinates typed into the latitude and longitude fields, where an emptied
\* field is parseFloat('') = NaN.
TypedLocations == {Bergen, [name |-> "Hjemme", lat |-> NaN, lon |-> 10]}
SettingsPayloads ==
    {[DEFAULT_SETTINGS EXCEPT !.location = l] : l \in TypedLocations}
        \cup {[DEFAULT_SETTINGS EXCEPT !.notifyOnSnow = TRUE]}
WeatherPayloads ==
    {[req |-> 1, location |-> Oslo, precipitationType |-> p] : p \in ResponsePhases}

\* The state tree after the initial load of an installation with nothing
\* persisted: SET_SETTINGS, SET_HISTORY and SET_CONTRACTORS have written the
\* defaults, and no weather blob exists.
InitStore ==
    /\ ContractorInit /\ HistoryInit /\ today = [y |-> 2026, m |-> 7, d |-> 28]
    /\ ForecastIdle /\ ServiceIdle
    /\ mounted = TRUE
    /\ settings = DEFAULT_SETTINGS /\ storedSettings = setToLocalStorage(DEFAULT_SETTINGS)
    /\ weather = Null /\ storedWeather = Null
    /\ loading = FALSE /\ error = "null" /\ lastNotifiedSnow = NoTime
    /\ inflight = {} /\ nextReq = 0 /\ triggers = 0 /\ now = 0 /\ startHour = 8
    /\ notifications = 0 /\ lastResolved = 0 /\ overwroteNewer = FALSE
    /\ facility = "granted" /\ displayed = 0

\* dispatch(action): what every case has in common.  The components' own
\* state and everything outside the state tree stay as they are.
dispatch(action) ==
    /\ dispatched.count < MaxDispatches
    /\ dispatched' = [type |-> action.type, count |-> dispatched.count + 1]
    /\ UNCHANGED <<isAdding, editingId, deletingId, formData, formAlias,
                   nextContractorId, lastDelete, editingEntry, today, daysPassed,
                   nextEntryId, lastHistoryAction, mounted, inflight, nextReq,
                   triggers, now, startHour, notifications, lastResolved,
                   overwroteNewer, facility, displayed, forecastVars, services,
                   searchForm>>

dispatchSettings(payload) ==
    /\ dispatch([type |-> "SET_SETTINGS"])
    /\ settings' = SET_SETTINGS(settings, payload)
    /\ storedSettings' = setToLocalStorage(SET_SETTINGS(settings, payload))
    /\ UNCHANGED <<weather, storedWeather, history, storedHistory, contractors,
                   storedContractors, loading, error, lastNotifiedSnow>>

dispatchWeather(payload) ==
    /\ dispatch([type |-> "SET_WEATHER"])
    /\ weather' = SET_WEATHER(weather, payload)
    /\ storedWeather' = SET_WEATHER(weather, payload)
    /\ UNCHANGED <<settings, storedSettings, history, storedHistory, contractors,
                   storedContractors, loading, error, lastNotifiedSnow>>

\* SET_HISTORY, ADD_HISTORY and DELETE_HISTORY; `next` is the list the case
\* computes.
dispatchHistory(type, next) ==
    /\ dispatch([type |-> type])
    /\ history' = next
    /\ storedHistory' = next
    /\ UNCHANGED <<settings, storedSettings, weather, storedWeather, contractors,
                   storedContractors, loading, error, lastNotifiedSnow>>

\* SET_CONTRACTORS, ADD_CONTRACTOR, UPDATE_CONTRACTOR, DELETE_CONTRACTOR and
\* SET_CONTRACTOR_PRIMARY; `next` is the list the case computes.
dispatchContractors(type, next) ==
    /\ dispatch([type |-> type])
    /\ contractors' = next
    /\ storedContractors' = next
    /\ UNCHANGED <<settings, storedSettings, weather, storedWeather, history,
                   storedHistory, loading, error, lastNotifiedSnow>>

\* SET_LOADING, SET_ERROR and SET_LAST_NOTIFIED_SNOW: no setToLocalStorage.
dispatchLoading(payload) ==
    /\ dispatch([type |-> "SET_LOADING"])
    /\ loading' = SET_LOADING(loading, payload)
    /\ UNCHANGED <<settings, storedSettings, weather, storedWeather, history,
                   storedHistory, contractors, storedContractors, error,
                   lastNotifiedSnow>>

dispatchError(payload) ==
    /\ dispatch([type |-> "SET_ERROR"])
    /\ error' = SET_ERROR(error, payload)
    /\ UNCHANGED <<settings, storedSettings, weather, storedWeather, history,
                   storedHistory, contractors, storedContractors, loading,
                   lastNotifiedSnow>>

dispatchLastNotifiedSnow(payload) ==
    /\ dispatch([type |-> "SET_LAST_NOTIFIED_SNOW"])
    /\ lastNotifiedSnow' = SET_LAST_NOTIFIED_SNOW(lastNotifiedSnow, payload)
    /\ UNCHANGED <<settings, storedSettings, weather, storedWeather, history,
                   storedHistory, contractors, storedContractors, loading, error>>

StoreNext ==
    \/ \E payload \in SettingsPayloads : dispatchSettings(payload)
    \/ \E payload \in WeatherPayloads : dispatchWeather(payload)
    \/ dispatchHistory("SET_HISTORY", SET_HISTORY(history, cleanOldHistory(history, today)))
    \/ dispatchHistory("ADD_HISTORY",
                       ADD_HISTORY(history, [id |-> dispatched.count + 1, timestamp |-> today],
                                   today))
    \/ \E i \in DOMAIN history :
           dispatchHistory("DELETE_HISTORY", DELETE_HISTORY(history, history[i].id))
    \/ dispatchContractors("SET_CONTRACTORS", SET_CONTRACTORS(contractors, <<>>))
    \/ dispatchContractors("ADD_CONTRACTOR",
                           ADD_CONTRACTOR(contractors,
                                          [id |-> dispatched.count + 1, name |-> "Broyn AS",
                                           isPrimary |-> (Len(contractors) = 0)]))
    \/ \E i \in DOMAIN contractors :
           dispatchContractors("UPDATE_CONTRACTOR",
                               UPDATE_CONTRACTOR(contractors,
                                                 [contractors[i] EXCEPT
                                                     !.name = "Maskin AS"]))
    \/ \E i \in DOMAIN contractors :
           dispatchContractors("DELETE_CONTRACTOR",
                               DELETE_CONTRACTOR(contractors, contractors[i].id))
    \/ \E i \in DOMAIN contractors :
           dispatchContractors("SET_CONTRACTOR_PRIMARY",
                               SET_CONTRACTOR_PRIMARY(contractors, contractors[i].id))
    \/ \E payload \in BOOLEAN : dispatchLoading(payload)
    \/ \E payload \in {"null", "Failed to fetch"} : dispatchError(payload)
    \/ \E payload \in {NoTime, 0} : dispatchLastNotifiedSnow(payload)

SpecStore == InitStore /\ [][StoreNext]_vars

(***************************************************************************)
(* Part 7: the place search of SettingsForm.  The text of the search       *)
(* field, the debounce timer, the searchPlaces calls awaiting their        *)
(* response, and the suggestions.                                          *)
(***************************************************************************)
MaxTyped == 3           \* changes of the search field in one run
DebounceMs == 300

\* The texts typed into the search field.
SearchTexts == {<<"o">>, <<"o", "s">>, <<"o", "s", "l">>}

\* The places the endpoint knows for a text, and the characters of the names
\* it answers with.
AnswerTo(q) ==
    IF Trim(q) = <<"o", "s">>
    THEN <<[name |-> "Os", display_name |-> <<"Os", "Norge">>, lat |-> 60, lon |-> 5]>>
    ELSE <<[name |-> "Oslo", display_name |-> <<"Oslo", "Norge">>, lat |-> 59,
            lon |-> 10]>>
Characters(name) ==
    IF name = "Os" THEN <<"O", "s">> ELSE <<"O", "s", "l", "o">>

\* SettingsForm as first rendered, in the application after startup.
InitSearch == InitStore

\* handleSearchChange(value): the pending timer is cleared; a text shorter than
\* two characters empties the suggestions, any other text starts a timer.
handleSearchChange(value) ==
    /\ searchForm.typed < MaxTyped
    /\ value # searchForm.searchQuery
    /\ searchForm' = [searchForm EXCEPT
                   !.typed = @ + 1,
                   !.searchQuery = value,
                   !.lastEdit = "typed",
                   !.suggestions = IF Len(Trim(value)) < 2 THEN <<>> ELSE @,
                   !.searchTimeout = IF Len(Trim(value)) < 2 THEN Null
                                     ELSE [id |-> searchForm.typed + 1, value |-> value]]
    /\ UNCHANGED <<contractorVars, historyVars, refreshVars, forecastVars, services,
                   dispatched>>

\* The timer's callback DebounceMs after the last change, up to its await:
\* searchPlaces(value) issues its request.
debounceElapses ==
    /\ searchForm.searchTimeout # Null
    /\ searchForm' = [searchForm EXCEPT !.searchTimeout = Null,
                            !.searches = @ \cup {searchForm.searchTimeout}]
    /\ LET value == searchForm.searchTimeout.value
           call == searchPlaces(value, "ok", AnswerTo(value))
       IN  services' = [services EXCEPT
                          !.wire = IF call.requested
                                   THEN @ \cup {Sent("search", 0, 0, Trim(value))}
                                   ELSE @]
    /\ UNCHANGED <<contractorVars, historyVars, refreshVars, forecastVars, dispatched>>

\* The rest of the callback: searchPlaces returns and setSuggestions stores
\* what it returned.
searchReturns(call, outcome) ==
    /\ call \in searchForm.searches
    /\ searchForm' = [searchForm EXCEPT
                   !.searches = @ \ {call},
                   !.suggestions = searchPlaces(call.value, outcome,
                                                AnswerTo(call.value)).result]
    /\ UNCHANGED <<contractorVars, historyVars, refreshVars, forecastVars, services,
                   dispatched>>

\* handleSelectSuggestion(suggestions[i]).
handleSelectSuggestion(i) ==
    /\ i \in DOMAIN searchForm.suggestions
    /\ searchForm' = [searchForm EXCEPT
                   !.searchQuery = Characters(searchForm.suggestions[i].name),
                   !.suggestions = <<>>,
                   !.lastEdit = "selected"]
    /\ UNCHANGED <<contractorVars, historyVars, refreshVars, forecastVars, services,
                   dispatched>>

SearchNext ==
    \/ \E value \in SearchTexts : handleSearchChange(value)
    \/ debounceElapses
    \/ \E call \in searchForm.searches, outcome \in SearchOutcomes :
           searchReturns(call, outcome)
    \/ \E i \in DOMAIN searchForm.suggestions : handleSelectSuggestion(i)

SpecSearch == InitSearch /\ [][SearchNext]_vars


(***************************************************************************)
(* Properties of the contractor list (SpecContractors).                    *)
(***************************************************************************)

\* The number of contractors of a list with isPrimary = true, and their ids.
NumPrimary(cs) == Cardinality({i \in 1..Len(cs) : cs[i].isPrimary})
PrimaryIds(cs) == {cs[i].id : i \in {j \in 1..Len(cs) : cs[j].isPrimary}}

\* C2: in every reachable state of the contractor list at most one contractor
\* has isPrimary = true, whatever the interleaving of add, open edit, save
\* edit, set primary and delete, starting from the empty list.
AtMostOnePrimary == NumPrimary(contractors) <= 1

\* A step of ContractorCard.confirmDelete: the dialog closes and the list loses
\* the contractor it was opened for.
IsConfirmDelete ==
    /\ deletingId # NoId
    /\ deletingId' = NoId
    /\ Len(contractors') < Len(contractors)

\* C3: confirmDelete of the primary contractor leaves exactly one primary, the
\* first of the remaining contractors, when a contractor remains, and no
\* primary when the list becomes empty; confirmDelete of a non-primary
\* contractor leaves the primary contractors as they were.
DeletePrimaryPromotes ==
    [][IsConfirmDelete =>
          LET deleted == FindContractor(contractors, deletingId)
              remaining == FilterSeq(contractors, deletingId)
          IN  /\ \A i \in 1..Len(contractors') : contractors'[i].id # deletingId
              /\ Len(contractors') = Len(remaining)
              /\ deleted.isPrimary /\ Len(remaining) >= 1 =>
                    /\ NumPrimary(contractors') = 1
                    /\ PrimaryIds(contractors') = {remaining[1].id}
              /\ deleted.isPrimary /\ Len(remaining) = 0 =>
                    NumPrimary(contractors') = 0
              /\ ~deleted.isPrimary =>
                    PrimaryIds(contractors') = PrimaryIds(contractors)]_vars

\* C3 witness: the primary contractor has just been deleted through
\* confirmDelete, contractors remain and exactly one of them is primary.
DeletedPrimaryWithOthersLeft ==
    /\ lastDelete = "primary"
    /\ Len(contractors) >= 1
    /\ NumPrimary(contractors) = 1

(***************************************************************************)
(* Properties of the history (SpecHistory).                                *)
(***************************************************************************)

\* C8: no two entries of state.history have the same id, after any sequence of
\* AddEntryModal submits, EditEntryModal submits and DELETE_HISTORY.
HistoryIdsUnique ==
    \A i, j \in 1..Len(history) : i # j => history[i].id # history[j].id

\* The calendar date six months before t: the same day of the month six months
\* back, or the last day of that month when it is shorter.
SixCalendarMonthsBefore(t) ==
    LET y1 == IF t.m < 6 THEN t.y - 1 ELSE t.y
        m1 == IF t.m < 6 THEN t.m + 6 ELSE t.m - 6
        len == DaysInMonth(y1, m1)
    IN  [y |-> y1, m |-> m1, d |-> IF t.d <= len THEN t.d ELSE len]

\* The entries of a list dated after the day six months before t, in order,
\* together with those dated on that very day when onTheDay holds (an entry of
\* that day is six months old to the second or not, by its time of day).
NotOlderThanSixMonths(entries, t, onTheDay) ==
    LET cutoff == SixCalendarMonthsBefore(t)
    IN  SelectSeq(entries, LAMBDA e : \/ DateLess(cutoff, e.timestamp)
                                      \/ onTheDay /\ e.timestamp = cutoff)

\* C9: ADD_HISTORY stores exactly the entries of the history plus the new entry
\* whose timestamp is not earlier than now minus six months, in their order, and
\* the load stores exactly those of the saved history.
PruningKeepsSixMonths ==
    [][/\ lastHistoryAction'.type = "ADD_HISTORY" =>
             \E onTheDay \in BOOLEAN :
                history' = NotOlderThanSixMonths(
                               Append(history, lastHistoryAction'.payload), today,
                               onTheDay)
       /\ lastHistoryAction'.type = "SET_HISTORY" =>
             \E onTheDay \in BOOLEAN :
                history' = NotOlderThanSixMonths(storedHistory, today, onTheDay)]_vars

(***************************************************************************)
(* Properties of the weather refresh (Spec).                               *)
(***************************************************************************)

\* A step in which refreshWeather calls showNotification.
Emits == notifications' = notifications + 1

\* A step in which a forecast response is processed (refreshWeather's try block).
ResponseProcessed == lastResolved' # lastResolved

\* A step in which fetchWeatherData rejects (refreshWeather's catch).
RefreshFailed ==
    /\ Cardinality(inflight') < Cardinality(inflight)
    /\ lastResolved' = lastResolved

\* C1: of two successful snow refreshes with no non-snow refresh between them
\* that complete less than 60 minutes apart, at most one emits a notification:
\* a notification is emitted only when none was emitted since the last non-snow
\* refresh, or the last one is at least an hour old.  (state.lastNotifiedSnow is
\* the time of the last notification, cleared by every non-snow refresh.)
DebounceWithinTheHour ==
    [][Emits => \/ lastNotifiedSnow = NoTime
                \/ now - lastNotifiedSnow >= DebounceHours]_vars

\* C4: a notification is emitted only if the settings in the state tree, when
\* the response is processed, satisfy shouldNotify at that hour.
EmitsOnlyIfSettingsAllow ==
    [][Emits => shouldNotify(settings, now)]_vars

SnowOnsetNotifies ==
    [][(/\ lastResolved # 0
        /\ weather.precipitationType # "snow"
        /\ ResponseProcessed
        /\ weather'.precipitationType = "snow"
        /\ shouldNotify(settings, now)) => Emits]_vars

\* C7: a processed response whose phase is not snow leaves lastNotifiedSnow
\* null; lastNotifiedSnow takes a new non-null value only in a step that emits
\* a notification; a failed refresh leaves it as it was.
LastNotifiedSnowLifecycle ==
    [][/\ ResponseProcessed /\ weather'.precipitationType # "snow" =>
             lastNotifiedSnow' = NoTime
       /\ lastNotifiedSnow' # NoTime /\ lastNotifiedSnow' # lastNotifiedSnow =>
             Emits /\ lastNotifiedSnow' = now
       /\ RefreshFailed => lastNotifiedSnow' = lastNotifiedSnow]_vars

\* C7 witness: a notification has fired, and the response processed last had a
\* phase other than snow and left lastNotifiedSnow null.
ClearedAfterNotification ==
    /\ notifications > 0
    /\ lastResolved # 0
    /\ weather.precipitationType # "snow"
    /\ lastNotifiedSnow = NoTime

\* C10: the weather in the state tree and in the persisted blob is the response
\* that was processed last, whatever the order in which the requests were
\* issued.
LastResponseWins ==
    lastResolved # 0 =>
        /\ weather # Null
        /\ weather.req = lastResolved
        /\ storedWeather = weather

\* C10 witness: the response processed last answers a request issued before
\* the request whose response it replaced, and it is the weather shown and
\* persisted.
OlderRequestResolvedLast ==
    /\ overwroteNewer
    /\ weather # Null
    /\ weather.req = lastResolved
    /\ storedWeather = weather

\* The messages state.error may carry after a failed fetch: the rejection's own
\* message, or the one that embeds the HTTP status.
FailureMessages ==
    {"Failed to fetch"}
        \cup {"Vaer-API feilet: " \o ToString(st) : st \in FailureStatuses}

\* C11: a refresh whose fetch fails processes no response, leaves the weather
\* in the state tree and in the persisted blob as they were, sets state.error
\* to the failure message (with the HTTP status in it for a non-success
\* answer), sets loading to false and issues no new request; and state.error
\* takes a new non-null value only in such a step.
FailedRefreshOnlySetsError ==
    [][/\ RefreshFailed =>
             /\ weather' = weather
             /\ storedWeather' = storedWeather
             /\ error' \in FailureMessages
             /\ loading' = FALSE
             /\ nextReq' = nextReq
             /\ inflight' \subseteq inflight
       /\ error' # error /\ error' # "null" => RefreshFailed]_vars

\* C11 witness: a fetched forecast is shown and persisted, and a later fetch
\* has failed with a non-success status: the forecast is still there, the
\* message carries the status, and loading is off.
StaleWeatherAfterFailure ==
    /\ weather # Null
    /\ weather.req > 0
    /\ storedWeather = weather
    /\ error = "Vaer-API feilet: 500"
    /\ ~loading

\* C12: every step that issues a forecast request leaves loading true and
\* state.error null, so an error set by an earlier failure is gone while the
\* new attempt is in flight.
RefreshStartClearsError ==
    [][nextReq' > nextReq => loading' = TRUE /\ error' = "null"]_vars

\* C12 witness: no fetch has succeeded yet, at least one request has failed
\* (so state.error was set), a further attempt has been started since and is
\* in flight, and state.error is null.
ErrorClearedByNewAttempt ==
    /\ mounted
    /\ weather = Null
    /\ nextReq > Cardinality(inflight)
    /\ triggers > 0
    /\ inflight # {}
    /\ error = "null"


(***************************************************************************)
(* Properties of the forecast functions (SpecStatus, SpecNormalizer,       *)
(* SpecAccumulation).                                                      *)
(***************************************************************************)

\* The sum of the snow figures of the records of `hourly` with index in I.
RECURSIVE SnowOver(_, _)
SnowOver(hourly, I) ==
    IF I = {} THEN 0
    ELSE LET i == CHOOSE x \in I : TRUE
         IN  hourly[i].snow + SnowOver(hourly, I \ {i})

\* The records among the first `hours` of `hourly` that are not in the past
\* at time t.
Upcoming(hourly, hours, t) ==
    {i \in DOMAIN hourly : i <= hours /\ hourly[i].time >= t}

\* The snow the forecast in the state tree holds for the next 24 hours.
Snow24h ==
    IF forecast = Null THEN 0
    ELSE SnowOver(forecast.hourly, Upcoming(forecast.hourly, 24, clock))

\* The status the limits give an amount under a threshold in mm.
StatusOf(amount, threshold) ==
    IF 10 * amount >= 15 * threshold * Scale THEN "critical"
    ELSE IF amount >= threshold * Scale THEN "warning"
    ELSE "normal"

\* C13: every read of getSnowStatus returns the 24-hour snow of the weather
\* now in the state tree, with status critical from 1.5 times the threshold
\* now in the settings, warning from the threshold, normal below it, and
\* normal with amount 0 when no weather is loaded; under 10 mm, 9.9 is
\* normal, 14.9 warning and 15.0 critical.
StatusFollowsCurrentWeather ==
    [][reads' # reads =>
          LET read == reads'[Len(reads')]
          IN  /\ read.snowAmount = Snow24h
              /\ read.threshold = snowThreshold
              /\ read.status = StatusOf(Snow24h, snowThreshold)
              /\ forecast = Null =>
                     read.status = "normal" /\ read.snowAmount = 0
              /\ read.threshold = 10 /\ read.snowAmount = Hundredths(990) =>
                     read.status = "normal"
              /\ read.threshold = 10 /\ read.snowAmount = Hundredths(1490) =>
                     read.status = "warning"
              /\ read.threshold = 10 /\ read.snowAmount = Hundredths(1500) =>
                     read.status = "critical"]_vars

\* C13 witness: under a threshold of 10 mm a read returned normal for 9.9 mm,
\* the forecast was replaced, and the next read returned critical for the
\* 15.0 mm the state tree now holds.
StatusReadAfterNewForecast ==
    /\ Len(reads) = 2
    /\ reads[1] = [status |-> "normal", snowAmount |-> Hundredths(990),
                   threshold |-> 10]
    /\ reads[2] = [status |-> "critical", snowAmount |-> Hundredths(1500),
                   threshold |-> 10]
    /\ Snow24h = Hundredths(1500)

\* normal < warning < critical.
Severity(status) ==
    IF status = "normal" THEN 0 ELSE IF status = "warning" THEN 1 ELSE 2

\* C14: of two reads under the same positive threshold, the one with the
\* larger accumulated snow never has the lower status.
StatusMonotonic ==
    \A i, j \in DOMAIN reads :
        (/\ reads[i].threshold = reads[j].threshold
         /\ reads[i].threshold > 0
         /\ reads[i].snowAmount <= reads[j].snowAmount)
            => Severity(reads[i].status) <= Severity(reads[j].status)

\* C14 witness: two reads under the same threshold, the second with more
\* snow and a higher status than the first.
MoreSnowHigherStatus ==
    /\ Len(reads) = 2
    /\ reads[1].threshold = reads[2].threshold
    /\ reads[1].snowAmount < reads[2].snowAmount
    /\ reads[1].status = "warning"
    /\ reads[2].status = "critical"

\* The hourly amount a raw entry stands for: its 1-hour figure if it has one,
\* else a sixth of its 6-hour figure, else 0.
FigureUsed(e) ==
    IF e.next_1_hours # Absent THEN e.next_1_hours
    ELSE IF e.next_6_hours # Absent THEN e.next_6_hours \div 6
    ELSE 0

\* x to one decimal, a tie going away from zero.
RoundHalfAway(x) ==
    IF x >= 0 THEN ((x + 30) \div 60) * 60
    ELSE -(((-x + 30) \div 60) * 60)

\* The raw entries with the records parseWeatherData made of them.
Normalized ==
    IF parsed = Null THEN {}
    ELSE {<<timeseries[i], parsed.hourly[i]>> : i \in DOMAIN parsed.hourly}

\* C15: in every hourly record the snow figure is the record's precipitation
\* amount when the entry's air temperature is below 2 degrees and its amount
\* is positive, and 0 otherwise, so 0 from 2 degrees up whatever the amount;
\* the phase of the record plays no part.  (The temperature is the entry's
\* air_temperature, the amount the one the entry stands for.)
SnowBelowTwoDegrees ==
    \A p \in Normalized :
        LET e == p[1]
            r == p[2]
        IN  /\ r.snow = IF e.air_temperature < 2 * Scale /\ FigureUsed(e) > 0
                        THEN r.precipitation
                        ELSE 0
            /\ e.air_temperature >= 2 * Scale => r.snow = 0

\* C15 witness: a record whose phase is sleet carries its whole precipitation
\* amount as snow, and one at 2 degrees or more with precipitation carries
\* none.
SleetCountedAsSnow ==
    /\ \E p \in Normalized :
           /\ p[2].precipitationType = "sleet"
           /\ p[2].snow > 0
           /\ p[2].snow = p[2].precipitation
    /\ \E p \in Normalized :
           /\ p[1].air_temperature >= 2 * Scale
           /\ p[2].precipitation > 0
           /\ p[2].snow = 0

\* C16: the precipitation amount of every hourly record is the entry's 1-hour
\* figure whenever it has one (also when that is 0 and the 6-hour figure is
\* positive), else a sixth of its 6-hour figure, else 0, to one decimal.
OneHourFigureFirst ==
    \A p \in Normalized :
        LET e == p[1]
            r == p[2]
        IN  /\ e.next_1_hours # Absent =>
                   r.precipitation = RoundHalfAway(e.next_1_hours)
            /\ e.next_1_hours = Absent /\ e.next_6_hours # Absent =>
                   r.precipitation = RoundHalfAway(e.next_6_hours \div 6)
            /\ e.next_1_hours = Absent /\ e.next_6_hours = Absent =>
                   r.precipitation = 0

\* C16 witness: an entry with a 1-hour figure of 0 and a positive 6-hour
\* figure gave a record without precipitation, and an entry with only a
\* 6-hour figure of 6.0 gave one with 1.0.
ZeroOneHourFigureUsed ==
    /\ \E p \in Normalized :
           /\ p[1].next_1_hours = 0
           /\ p[1].next_6_hours > 0
           /\ p[2].precipitation = 0
    /\ \E p \in Normalized :
           /\ p[1].next_1_hours = Absent
           /\ p[1].next_6_hours = 6 * Scale
           /\ p[2].precipitation = Scale

\* C17: the phase of every hourly record is rain when the entry's amount is
\* not positive, else snow below 0.5 degrees, else sleet below 3 degrees,
\* else rain; 1 degree with only a 6-hour figure of 6.0 gives precipitation
\* 1.0, snow 1.0 and sleet, -1 degree with a 1-hour figure of 3.2 gives snow
\* 3.2 and phase snow.
PhaseByTemperature ==
    \A p \in Normalized :
        LET e == p[1]
            r == p[2]
        IN  /\ r.precipitationType =
                   IF FigureUsed(e) <= 0 THEN "rain"
                   ELSE IF 2 * e.air_temperature < Scale THEN "snow"
                   ELSE IF e.air_temperature < 3 * Scale THEN "sleet"
                   ELSE "rain"
            /\ (/\ e.air_temperature = Scale
                 /\ e.next_1_hours = Absent
                 /\ e.next_6_hours = 6 * Scale) =>
                   /\ r.precipitation = Scale
                   /\ r.snow = Scale
                   /\ r.precipitationType = "sleet"
            /\ (e.air_temperature = -Scale /\ e.next_1_hours = Hundredths(320)) =>
                   r.snow = Hundredths(320) /\ r.precipitationType = "snow"

\* C17 witness: a forecast whose first entry is the 1-degree example and
\* whose second is the -1-degree example has been normalized to a sleet
\* record followed by a snow record.
SleetThenSnow ==
    /\ parsed # Null
    /\ Len(parsed.hourly) >= 2
    /\ timeseries[1].air_temperature = Scale
    /\ timeseries[1].next_1_hours = Absent
    /\ timeseries[1].next_6_hours = 6 * Scale
    /\ parsed.hourly[1].precipitationType = "sleet"
    /\ parsed.hourly[1].snow = Scale
    /\ timeseries[2].air_temperature = -Scale
    /\ timeseries[2].next_1_hours = Hundredths(320)
    /\ parsed.hourly[2].precipitationType = "snow"
    /\ parsed.hourly[2].snow = Hundredths(320)

\* C18: once a forecast of at least one entry is normalized, the temperature,
\* snow, precipitation, phase and weather condition of `current` are those of
\* the first hourly record.
CurrentEqualsFirstHour ==
    (parsed # Null /\ Len(parsed.hourly) > 0) =>
        /\ parsed.current.temperature = parsed.hourly[1].temperature
        /\ parsed.current.snow = parsed.hourly[1].snow
        /\ parsed.current.precipitation = parsed.hourly[1].precipitation
        /\ parsed.current.precipitationType = parsed.hourly[1].precipitationType
        /\ parsed.current.weatherCondition = parsed.hourly[1].weatherCondition

\* C19: the snow, temperature and precipitation of every hourly record, and
\* the temperature of `current`, are the entry's values to one decimal with
\* ties away from zero, for negative temperatures too.
RoundedHalfAwayFromZero ==
    /\ \A p \in Normalized :
           LET e == p[1]
               r == p[2]
           IN  /\ r.temperature = RoundHalfAway(e.air_temperature)
               /\ r.precipitation = RoundHalfAway(FigureUsed(e))
               /\ r.snow = RoundHalfAway(IF e.air_temperature < 2 * Scale
                                             /\ FigureUsed(e) > 0
                                          THEN FigureUsed(e) ELSE 0)
    /\ (parsed # Null /\ Len(parsed.hourly) > 0) =>
           parsed.current.temperature = RoundHalfAway(timeseries[1].air_temperature)

AccumulatesComingHours ==
    (accumulated # Null /\ accumulated.hours >= 0) =>
        accumulated.amount =
            SnowOver(forecast.hourly,
                     {i \in DOMAIN forecast.hourly :
                         /\ forecast.hourly[i].time >= clock
                         /\ forecast.hourly[i].time < clock + accumulated.hours})


(***************************************************************************)
(* Properties of the service calls (SpecServices).                         *)
(***************************************************************************)

\* A latitude in [-90, 90] and a longitude in [-180, 180], both numbers.
OnTheGlobe(c) ==
    /\ c.lat # NaN /\ c.lat >= -90 /\ c.lat <= 90
    /\ c.lon # NaN /\ c.lon >= -180 /\ c.lon <= 180

\* C22: with a latitude outside [-90, 90], a longitude outside [-180, 180] or
\* either not a number, no forecast request and no reverse-geocoding request
\* is issued, reverseGeocode returns null and state.error is not set.
MalformedCoordinatesStayLocal ==
    ~OnTheGlobe(services.coordinate) =>
        /\ \A r \in services.wire : r.service \notin {"forecast", "reverse"}
        /\ services.geocoded \in {"none", "null"}
        /\ error = "null"

\* C23: searchPlaces returns an empty list without a request when the trimmed
\* text has fewer than 2 characters, returns an empty list when the request
\* fails, is answered with a non-success status or with a body that cannot be
\* parsed, never throws and leaves state.error as it is.
SearchFailuresGiveNoPlaces ==
    [][services'.found # services.found =>
          /\ ~services'.found.thrown
          /\ error' = error
          /\ Len(Trim(services.query)) < 2 =>
                 services'.found.result = <<>> /\ services'.wire = services.wire
          /\ services'.found.outcome \in {"rejected", "status", "unparsable"} =>
                 services'.found.result = <<>>]_vars

\* C23 witness: a search for a text of two characters or more was sent and
\* failed, and searchPlaces came back with an empty list.
FailedSearchAbsorbed ==
    /\ services.found # Null
    /\ Len(Trim(services.query)) >= 2
    /\ services.found.outcome = "status"
    /\ services.found.result = <<>>
    /\ ~services.found.thrown
    /\ \E r \in services.wire : r.service = "search" /\ r.q = Trim(services.query)


(***************************************************************************)
(* Properties of the refresh under every notification facility             *)
(* (SpecNotification).                                                     *)
(***************************************************************************)

\* C24: a notification is displayed only when the facility is supported and
\* permission is granted; whatever the facility, a step that processes a
\* forecast response stores the new weather in the state tree and in the
\* persisted blob and leaves state.error as the start of the refresh left it.
NotificationFailuresAbsorbed ==
    [][/\ displayed' # displayed => facility = "granted"
       /\ ResponseProcessed =>
             /\ error' = error
             /\ weather' # Null
             /\ weather'.req = lastResolved'
             /\ storedWeather' = weather'
             /\ notifications' # notifications /\ facility # "granted" =>
                    displayed' = displayed]_vars

\* C24 witness: showNotification was called under a facility whose
\* constructor throws, nothing was displayed, and the refresh ended with the
\* new weather stored, loading off and state.error null.
UnshownNotificationLeavesNoError ==
    /\ facility = "failing"
    /\ notifications > 0
    /\ displayed = 0
    /\ weather # Null
    /\ weather.req = lastResolved
    /\ storedWeather = weather
    /\ inflight = {}
    /\ ~loading
    /\ error = "null"

(***************************************************************************)
(* Properties of overlapping refreshes (Spec).                             *)
(***************************************************************************)

\* C27: once every refresh in flight has completed and none has left an
\* error, state.weather is the forecast that was requested for the coordinates
\* now in settings.location, after startup with a persisted location and
\* after handleSave has stored a new one.
WeatherForCurrentLocation ==
    mounted /\ inflight = {} /\ error = "null" /\ weather # Null =>
        /\ weather.location.lat = settings.location.lat
        /\ weather.location.lon = settings.location.lon

\* C28: state.loading is true exactly while at least one refresh is in flight.
LoadingWhileInFlight == loading <=> (inflight # {})

\* C29: when the last refresh in flight completes, state.error is null exactly
\* if that refresh succeeded; in particular the failure of a refresh that
\* overlapped it is not left in state.error.
ErrorOfLastCompletion ==
    [][inflight # {} /\ inflight' = {} =>
          (error' = "null" <=> ResponseProcessed)]_vars

(***************************************************************************)
(* Properties of the reload of the history (SpecHistory).                  *)
(***************************************************************************)

\* C26: opening the application again restores the history as last persisted
\* minus the entries older than six months, and nothing else is dropped: after
\* the initial load the history in the state tree, and the blob the load
\* writes back, hold exactly the persisted entries that are not older than six
\* months, in their order.
ReloadRestoresHistory ==
    [][lastHistoryAction'.type = "SET_HISTORY" =>
          \E onTheDay \in BOOLEAN :
             /\ history' = NotOlderThanSixMonths(lastHistoryAction'.payload, today',
                                                 onTheDay)
             /\ storedHistory' = history'
             /\ editingEntry' = Null]_vars

(***************************************************************************)
(* Properties of the reducer on its own (SpecStore).                       *)
(***************************************************************************)

SettingsCases == {"SET_SETTINGS"}
WeatherCases == {"SET_WEATHER"}
HistoryCases == {"SET_HISTORY", "ADD_HISTORY", "DELETE_HISTORY"}
ContractorCases == {"SET_CONTRACTORS", "ADD_CONTRACTOR", "UPDATE_CONTRACTOR",
                    "DELETE_CONTRACTOR", "SET_CONTRACTOR_PRIMARY"}

\* C25: after every reducer action each of the four blobs reads back as the
\* in-memory entity; an action on one entity leaves the other three blobs
\* unchanged; SET_LOADING, SET_ERROR and SET_LAST_NOTIFIED_SNOW write nothing.
BlobsMirrorStateTree ==
    [][dispatched'.count # dispatched.count =>
         /\ storedSettings' = settings'
         /\ storedWeather' = weather'
         /\ storedHistory' = history'
         /\ storedContractors' = contractors'
         /\ dispatched'.type \notin SettingsCases => storedSettings' = storedSettings
         /\ dispatched'.type \notin WeatherCases => storedWeather' = storedWeather
         /\ dispatched'.type \notin HistoryCases => storedHistory' = storedHistory
         /\ dispatched'.type \notin ContractorCases =>
                storedContractors' = storedContractors]_vars

(***************************************************************************)
(* Properties of the place search (SpecSearch).                            *)
(***************************************************************************)

\* C30: once no timer and no searchPlaces call is pending, the suggestions
\* under a typed text are what searchPlaces returns for that text: the empty
\* list when the trimmed text has fewer than two characters, and otherwise
\* the places found for it (none when the request failed).
SuggestionsFollowLatestQuery ==
    (/\ searchForm.lastEdit = "typed"
     /\ searchForm.searchTimeout = Null
     /\ searchForm.searches = {})
        => \E outcome \in SearchOutcomes :
              searchForm.suggestions =
                  searchPlaces(searchForm.searchQuery, outcome,
                               AnswerTo(searchForm.searchQuery)).result

====
